---------------------------- MODULE Spec2Model ----------------------------
(***************************************************************************)
(* A model of smpclient/transport/chirpstack_fuota.py: the LoRaWAN FUOTA   *)
(* transport SMPChirpstackFuotaTransport.  The module models               *)
(*   - the uplink reassembly (receive_unicast and its assembler),          *)
(*   - the request/response glue (send, receive, send_and_receive),        *)
(*   - the chunked multicast sender (send_multicast),                      *)
(*   - the completion evaluator (check_status_response).                   *)
(* The external collaborators (message store, device service, FUOTA        *)
(* orchestrator, clock) are nondeterministic.                              *)
(***************************************************************************)
EXTENDS Integers, Sequences, FiniteSets, TLC

(***************************************************************************)
(* Bounds of the model.                                                    *)
(***************************************************************************)
\* Uplink frames the message store may hold during one call (fCnt 1..MaxFrames).
MaxFrames == 3
\* Iterations of the receive_unicast loop that run without a stall of the clock.
MaxTicks == 5

(***************************************************************************)
(* Program constants.                                                      *)
(***************************************************************************)
\* smphdr.Header.SIZE
HeaderSize == 8
\* asyncio.sleep(5) of the receive_unicast loop
TickSleepS == 5
\* _should_send_nudge: no_uplink_count >= 4
NudgeThreshold == 4
\* fPort of the requests (send) and of the nudge (_send_nudge)
RequestFPort == 2
NudgeFPort == 4
\* time.time() - 60.0 of send_unicast and send_and_receive
SendTimeSkewS == 60
\* receive(): receive_unicast(..., 2, 360)
ReceiveTimeoutS == 360
\* smphdr.GroupId.IMAGE_MANAGEMENT and CommandId.ImageManagement.UPLOAD
IMAGE_MANAGEMENT == 1
UPLOAD == 1

\* b'\x00\x01\x02\x03\x04' of _send_nudge
NudgePayload == <<0, 1, 2, 3, 4>>

(***************************************************************************)
(* Bytes and the SMP header (struct "!BBHHBB": res/ver/op, flags, length,  *)
(* group_id, sequence, command_id).                                        *)
(***************************************************************************)
Take(s, n) == SubSeq(s, 1, IF n < Len(s) THEN n ELSE Len(s))

Drop(s, n) == SubSeq(s, n + 1, Len(s))

\* The header bytes of a message: the encoding Header.loads reads back.
HeaderBytes(op, length, group, sequence, command) ==
    << op % 256, 0, (length \div 256) % 256, length % 256,
       (group \div 256) % 256, group % 256, sequence % 256, command % 256 >>

\* smphdr.Header.loads(payload_bytes[:smphdr.Header.SIZE])
HeaderLoads(b) ==
    [ op       |-> b[1] % 8,
      length   |-> b[3] * 256 + b[4],
      group_id |-> b[5] * 256 + b[6],
      sequence |-> b[7],
      command_id |-> b[8] ]

\* _validate_smp_header: TRUE when it returns, FALSE when it raises.
ValidateSmpHeader(payload_bytes) ==
    /\ ~ (Len(payload_bytes) < HeaderSize)
    /\ ~ (Len(payload_bytes) > 0 /\ payload_bytes[1] % 8 > 3)

\* _is_valid_response_header without the comparison of the sequence.
IsValidResponseHeaderNoSeq(header, exp) ==
    /\ header.group_id = exp.group_id
    /\ header.command_id = exp.command_id

\* _is_valid_response_header
IsValidResponseHeader(header, exp) ==
    /\ header.group_id = exp.group_id
    /\ header.command_id = exp.command_id
    /\ header.sequence = exp.sequence

(***************************************************************************)
(* The upload-write request and response of the smp codec, as far as the   *)
(* transport reads and writes them: the header, then a CBOR map whose      *)
(* first entry is "off" (0xa1 0x63 'o' 'f' 'f' <unsigned>).                *)
(***************************************************************************)
CborUInt(n) ==
    IF n < 24 THEN <<n>>
    ELSE IF n < 256 THEN <<24, n>>
    ELSE <<25, (n \div 256) % 256, n % 256>>

CborOffMap(o) == <<161, 99, 111, 102, 102>> \o CborUInt(o)

CborOffLoads(body) ==
    IF body[6] < 24 THEN body[6]
    ELSE IF body[6] = 24 THEN body[7]
    ELSE body[7] * 256 + body[8]

\* smpimg.ImageUploadWriteRequest(sequence, off, data, ...).BYTES
UploadWriteRequestBytes(sequence, o, data) ==
    LET body == CborOffMap(o) \o data
    IN  HeaderBytes(2, Len(body), IMAGE_MANAGEMENT, sequence, UPLOAD) \o body

\* smpimg.ImageUploadWriteRequest.loads(data).off
UploadWriteRequestOff(data) == CborOffLoads(Drop(data, HeaderSize))

\* smpimg.ImageUploadWriteResponse(sequence=..., off=...).BYTES
UploadWriteResponseBytes(sequence, o) ==
    LET body == CborOffMap(o)
    IN  HeaderBytes(3, Len(body), IMAGE_MANAGEMENT, sequence, UPLOAD) \o body

\* smpimg.ImageUploadWriteResponse.loads(frame): the fields the caller reads
UploadWriteResponseLoads(frame) ==
    [ sequence |-> HeaderLoads(frame).sequence,
      off      |-> CborOffLoads(Drop(frame, HeaderSize)) ]

\* A request without a body: op, group, command and sequence only.
PlainRequestBytes(op, group, command, sequence) ==
    HeaderBytes(op, 0, group, sequence, command)


(***************************************************************************)
(* Uplink frames.  A frame is an event of the message store:               *)
(*   fCnt  uplink["data"]["fCnt"], the sort key;                           *)
(*   time  uplink["data"]["time"], the deduplication key: the ISO string   *)
(*         is modelled by its instant in half seconds, so that two         *)
(*         different strings can fall in the same epoch second;            *)
(*   data  the bytes base64.b64decode(uplink["data"]["data"]) yields.      *)
(***************************************************************************)
\* The clock when the model starts, in seconds.
StartEpoch == 100

FrameTime(fCnt) == 2 * StartEpoch + fCnt

Frame(fCnt, data) == [fCnt |-> fCnt, time |-> FrameTime(fCnt), data |-> data]

\* int(datetime.fromisoformat(timestamp_str).timestamp())
TimestampEpoch(time) == time \div 2

\* What the device may put in one uplink while the transport expects exp:
\* a complete matching response, complete responses of another group or of
\* another sequence, the header frame of an 11-byte response with the
\* expected or with another sequence, and continuation frames of 1 and of
\* 2 bytes.
MatchPayload(exp) ==
    HeaderBytes(1, 2, exp.group_id, exp.sequence, exp.command_id) \o <<20, 21>>

GroupMismatchPayload(exp) ==
    HeaderBytes(1, 2, exp.group_id + 1, exp.sequence, exp.command_id) \o <<30, 31>>

SeqMismatchPayload(exp) ==
    HeaderBytes(1, 2, exp.group_id, exp.sequence + 1, exp.command_id) \o <<40, 41>>

HeadPayload(exp) ==
    HeaderBytes(1, 3, exp.group_id, exp.sequence, exp.command_id) \o <<10>>

SeqMismatchHeadPayload(exp) ==
    HeaderBytes(1, 3, exp.group_id, exp.sequence + 1, exp.command_id) \o <<50>>

Cont1Payload == <<11>>

ContPairPayload == <<11, 12>>

DevicePayloads(exp) ==
    { MatchPayload(exp), GroupMismatchPayload(exp), SeqMismatchPayload(exp),
      HeadPayload(exp), SeqMismatchHeadPayload(exp),
      Cont1Payload, ContPairPayload }

(***************************************************************************)
(* Sequences of frames.                                                    *)
(***************************************************************************)
RECURSIVE Concat(_)
\* b"".join of the payloads of a list of frames
Concat(ups) ==
    IF ups = <<>> THEN <<>> ELSE Head(ups).data \o Concat(Tail(ups))

Range(s) == { s[i] : i \in DOMAIN s }

RECURSIVE SortedByFCnt(_)
\* sorted(uplinks['events'], key=lambda x: x['data']['fCnt'])
SortedByFCnt(S) ==
    IF S = {} THEN <<>>
    ELSE LET m == CHOOSE x \in S : \A y \in S : x.fCnt <= y.fCnt
         IN  <<m>> \o SortedByFCnt(S \ {m})

\* _filter_unprocessed_uplinks letting every frame through.
FilterUnprocessedKeepsAll(sorted_uplinks, processed_ts) == sorted_uplinks

RECURSIVE FilterUnprocessed(_, _)
\* _filter_unprocessed_uplinks, the list it returns
FilterUnprocessed(sorted_uplinks, processed_ts) ==
    IF sorted_uplinks = <<>> THEN <<>>
    ELSE IF Head(sorted_uplinks).time \in processed_ts
         THEN FilterUnprocessed(Tail(sorted_uplinks), processed_ts)
         ELSE <<Head(sorted_uplinks)>> \o FilterUnprocessed(Tail(sorted_uplinks), processed_ts)

\* _filter_unprocessed_uplinks keeping the timestamp of the first frame it
\* lets through, not the latest.
FirstTimestampEpoch(filtered) ==
    IF filtered = <<>> THEN 0 ELSE TimestampEpoch(Head(filtered).time)

RECURSIVE LatestTimestampEpoch(_)
\* _filter_unprocessed_uplinks, the latest_timestamp_epoch it returns
LatestTimestampEpoch(filtered) ==
    IF filtered = <<>> THEN 0
    ELSE LET rest == LatestTimestampEpoch(Tail(filtered))
             t == TimestampEpoch(Head(filtered).time)
         IN  IF t > rest THEN t ELSE rest

(***************************************************************************)
(* The assembler, _assemble_message_from_uplinks.  Its result is           *)
(*   kind "msg"   (complete_message, remaining_uplinks),                   *)
(*   kind "none"  (None, remaining_uplinks),                               *)
(*   kind "raise" SMPChirpstackFuotaTransportException.                    *)
(* The loop state st holds the locals header (hasHeader: header is not     *)
(* None), payload_bytes, message_length and remaining_uplinks.             *)
(***************************************************************************)
AsmMsg(msg, rem) == [kind |-> "msg", msg |-> msg, rem |-> rem]

AsmNone(rem) == [kind |-> "none", msg |-> <<>>, rem |-> rem]

AsmRaise == [kind |-> "raise", msg |-> <<>>, rem |-> <<>>]

RECURSIVE AssembleLoop(_, _, _, _)
RECURSIVE AssembleCheck(_, _, _, _)

\* The body of the loop putting a continuation before the buffer, not after.
AssembleLoopPrepends(ups, i, st, exp) ==
    IF i > Len(ups) THEN AsmNone(ups)
    ELSE LET more == ups[i].data IN
         IF ~ st.hasHeader
         THEN IF ~ ValidateSmpHeader(more) THEN AsmRaise
              ELSE LET h == HeaderLoads(more) IN
                   IF ~ (h.group_id = exp.group_id /\ h.command_id = exp.command_id)
                   THEN AssembleLoop(ups, i + 1,
                            [st EXCEPT !.hasHeader = TRUE, !.header = h,
                                       !.payload = more,
                                       !.rem = Append(st.rem, ups[i])], exp)
                   ELSE AssembleCheck(ups, i,
                            [st EXCEPT !.hasHeader = TRUE, !.header = h,
                                       !.payload = more,
                                       !.mlen = h.length + HeaderSize], exp)
         ELSE AssembleCheck(ups, i, [st EXCEPT !.payload = more \o st.payload], exp)

\* The body of "for uplink in sorted_uplinks[1:]" for the i-th frame.
AssembleLoop(ups, i, st, exp) ==
    IF i > Len(ups) THEN AsmNone(ups)
    ELSE LET more == ups[i].data IN
         IF ~ st.hasHeader
         THEN IF ~ ValidateSmpHeader(more) THEN AsmRaise
              ELSE LET h == HeaderLoads(more) IN
                   IF ~ (h.group_id = exp.group_id /\ h.command_id = exp.command_id)
                   THEN AssembleLoop(ups, i + 1,
                            [st EXCEPT !.hasHeader = TRUE, !.header = h,
                                       !.payload = more,
                                       !.rem = Append(st.rem, ups[i])], exp)
                   ELSE AssembleCheck(ups, i,
                            [st EXCEPT !.hasHeader = TRUE, !.header = h,
                                       !.payload = more,
                                       !.mlen = h.length + HeaderSize], exp)
         ELSE AssembleCheck(ups, i, [st EXCEPT !.payload = st.payload \o more], exp)

\* "Check if we have received the full message" at the end of the body.
AssembleCheck(ups, i, st, exp) ==
    IF Len(st.payload) = st.mlen
    THEN IF IsValidResponseHeader(st.header, exp)
         THEN AsmMsg(st.payload, st.rem)
         ELSE AssembleLoop(ups, i + 1,
                  [st EXCEPT !.hasHeader = FALSE,
                             !.rem = Append(st.rem, ups[i])], exp)
    ELSE IF Len(st.payload) > st.mlen THEN AsmRaise
         ELSE AssembleLoop(ups, i + 1, st, exp)

AssembleMessageFromUplinks(sorted_uplinks, exp) ==
    IF sorted_uplinks = <<>> THEN AsmNone(<<>>)
    ELSE LET payload_bytes == sorted_uplinks[1].data IN
         IF ~ ValidateSmpHeader(payload_bytes) THEN AsmRaise
         ELSE LET header == HeaderLoads(payload_bytes)
                  message_length == header.length + HeaderSize
              IN  IF Len(payload_bytes) = message_length
                  THEN IF IsValidResponseHeader(header, exp)
                       THEN AsmMsg(payload_bytes, Tail(sorted_uplinks))
                       ELSE AsmNone(Tail(sorted_uplinks))
                  ELSE AssembleLoop(sorted_uplinks, 2,
                           [hasHeader |-> TRUE, header |-> header,
                            payload |-> payload_bytes, mlen |-> message_length,
                            rem |-> <<>>], exp)

(***************************************************************************)
(* The profile table chirpstack_fuota_configurations (the fields the       *)
(* transport computes with) and get_multicast_timeout_seconds.             *)
(***************************************************************************)
GroupTypes == {"CLASS_B", "CLASS_C"}

DownlinkSpeeds == {"DL_FAST", "DL_MEDIUM", "DL_SLOW"}

Profile(mtu_, multicast_timeout_, unicast_timeout_) ==
    [mtu |-> mtu_, multicast_timeout |-> multicast_timeout_,
     unicast_timeout |-> unicast_timeout_]

chirpstack_fuota_configurations ==
    [g \in GroupTypes |->
        IF g = "CLASS_C"
        THEN [s \in DownlinkSpeeds |->
                 CASE s = "DL_FAST"   -> Profile(4992, 8, 45)
                   [] s = "DL_MEDIUM" -> Profile(3072, 8, 45)
                   [] s = "DL_SLOW"   -> Profile(2048, 8, 45)]
        ELSE [s \in DownlinkSpeeds |->
                 CASE s = "DL_FAST"   -> Profile(4992, 8, 45)
                   [] s = "DL_MEDIUM" -> Profile(3072, 8, 45)
                   [] s = "DL_SLOW"   -> Profile(1920, 5, 90)]]

\* get_multicast_timeout_seconds without the 60 seconds of margin.
get_multicast_timeout_secondsNoMargin(group_type, downlink_speed) ==
    LET cfg == chirpstack_fuota_configurations[group_type][downlink_speed]
        pow == 2 ^ cfg.multicast_timeout
        timeout_seconds == IF group_type = "CLASS_B" THEN pow * 128 ELSE pow
    IN  timeout_seconds + cfg.unicast_timeout

get_multicast_timeout_seconds(group_type, downlink_speed) ==
    LET cfg == chirpstack_fuota_configurations[group_type][downlink_speed]
        pow == 2 ^ cfg.multicast_timeout
        timeout_seconds == IF group_type = "CLASS_B" THEN pow * 128 ELSE pow
    IN  timeout_seconds + cfg.unicast_timeout + 60

(***************************************************************************)
(* The completion evaluator, check_status_response.  A status response is  *)
(* [frag_status_completed_at, enqueue_completed_at,                        *)
(*  mc_group_setup_completed_at, device_status], device_status a list of   *)
(* log lists; a log entry is [command, nb_frag, nb_frag_received,          *)
(* missing_frag], the fields int(...) reads.                               *)
(***************************************************************************)
LogEntry(command, nb_frag, nb_frag_received, missing_frag) ==
    [command |-> command, nb_frag |-> nb_frag,
     nb_frag_received |-> nb_frag_received, missing_frag |-> missing_frag]

SetupReq(nb_frag) == LogEntry("FragSessionSetupReq", nb_frag, 0, 0)

StatusAns(nb_frag_received, missing_frag) ==
    LogEntry("FragSessionStatusAns", 0, nb_frag_received, missing_frag)

OtherLog == LogEntry("McGroupSetupReq", 0, 0, 0)

StatusRecord(completed_at, device_status) ==
    [frag_status_completed_at |-> completed_at,
     enqueue_completed_at |-> 2, mc_group_setup_completed_at |-> 1,
     device_status |-> device_status]

CompleteLogs == <<SetupReq(2), StatusAns(2, 0)>>

IncompleteLogs == <<SetupReq(2), StatusAns(1, 1)>>

RECURSIVE ScanLogs(_, _)
\* Lines 366-378: the locals after "for log_entry in device_status['logs']".
ScanLogs(logs, acc) ==
    IF logs = <<>> THEN acc
    ELSE LET e == Head(logs) IN
         ScanLogs(Tail(logs),
            IF e.command = "FragSessionSetupReq"
            THEN [acc EXCEPT !.frag_session_setup_req = TRUE,
                             !.nb_frag_sent = e.nb_frag]
            ELSE IF e.command = "FragSessionStatusAns"
            THEN [acc EXCEPT !.frag_session_status_ans = TRUE,
                             !.nb_frag_received = e.nb_frag_received,
                             !.missing_frag = e.missing_frag]
            ELSE acc)

ScanStart ==
    [frag_session_setup_req |-> FALSE, frag_session_status_ans |-> FALSE,
     nb_frag_sent |-> 0, nb_frag_received |-> 0, missing_frag |-> -1]

\* The test of lines 392-400 without the allowance for a phantom missing
\* fragment.
DeviceCompletedStrict(logs) ==
    LET v == ScanLogs(logs, ScanStart) IN
    /\ v.frag_session_setup_req
    /\ v.frag_session_status_ans
    /\ v.nb_frag_sent = v.nb_frag_received

\* The test of lines 392-400 asking for no missing fragment in every case.
DeviceCompletedNoneMissing(logs) ==
    LET v == ScanLogs(logs, ScanStart) IN
    /\ v.frag_session_setup_req
    /\ v.frag_session_status_ans
    /\ v.nb_frag_sent <= v.nb_frag_received
    /\ v.missing_frag = 0

\* Lines 392-400: the test that counts a device as completed.
DeviceCompleted(logs) ==
    LET v == ScanLogs(logs, ScanStart) IN
    /\ v.frag_session_setup_req
    /\ v.frag_session_status_ans
    /\ \/ v.nb_frag_sent = v.nb_frag_received
       \/ (v.nb_frag_sent <= v.nb_frag_received /\ v.missing_frag = 0)

\* check_status_response failing from three device statuses on.
check_status_responseFromThree(status_response) ==
    IF status_response.frag_status_completed_at > 0
    THEN LET ds == status_response.device_status
             device_logs_test_count == Len(ds)
             completed_devices == Cardinality({ i \in DOMAIN ds : DeviceCompleted(ds[i]) })
         IN  IF completed_devices > 0 THEN [ret |-> "true", update |-> TRUE]
             ELSE IF device_logs_test_count >= 3 THEN [ret |-> "raise", update |-> FALSE]
             ELSE [ret |-> "false", update |-> FALSE]
    ELSE [ret |-> "false", update |-> FALSE]

\* check_status_response without the test of frag_status_completed_at.
check_status_responseUngated(status_response) ==
    LET ds == status_response.device_status
        device_logs_test_count == Len(ds)
        completed_devices == Cardinality({ i \in DOMAIN ds : DeviceCompleted(ds[i]) })
    IN  IF completed_devices > 0 THEN [ret |-> "true", update |-> TRUE]
        ELSE IF device_logs_test_count > 3 THEN [ret |-> "raise", update |-> FALSE]
        ELSE [ret |-> "false", update |-> FALSE]

\* check_status_response: ret is "true", "false" or "raise"; update says
\* whether update_downlink_stats was called.
check_status_response(status_response) ==
    IF status_response.frag_status_completed_at > 0
    THEN LET ds == status_response.device_status
             device_logs_test_count == Len(ds)
             completed_devices == Cardinality({ i \in DOMAIN ds : DeviceCompleted(ds[i]) })
         IN  IF completed_devices > 0 THEN [ret |-> "true", update |-> TRUE]
             ELSE IF device_logs_test_count > 3 THEN [ret |-> "raise", update |-> FALSE]
             ELSE [ret |-> "false", update |-> FALSE]
    ELSE [ret |-> "false", update |-> FALSE]

\* ChirpstackFuotaDownlinkStats.update_downlink_stats, the two sums.
update_downlink_stats(st, status_response) ==
    [ total_multicast_downlink_time |->
          st.total_multicast_downlink_time
          + (status_response.frag_status_completed_at - status_response.enqueue_completed_at),
      total_setup_time |->
          st.total_setup_time
          + (status_response.enqueue_completed_at - status_response.mc_group_setup_completed_at) ]

(***************************************************************************)
(* State.                                                                  *)
(***************************************************************************)
VARIABLES
    \* fields of SMPChirpstackFuotaTransport
    expected,          \* _expected_response_group_id, _command_id, _sequence
    off,               \* _off
    last_send_time,    \* _last_send_time
    matched_devices,   \* _matched_devices, a list of dev_eui
    processed,         \* _processed_uplink_timestamps
    pending,           \* _pending_uplinks: dev_eui -> list of frames
    profile,           \* _multicast_group_type, _downlink_speed
    send_start_time,   \* _send_start_time
    send_max_duration, \* _send_max_duration_s, the fraction num / den
    \* the collaborators
    now,               \* time.time(), in seconds
    store,             \* message store: dev_eui -> frames it has returned so far
    downlinks,         \* DeviceService.queue_downlink calls, in order
    deployments,       \* FuotaService.create_deployment calls, in order
    \* the call in progress
    pc,                \* where the call stands
    api,               \* the method the caller invoked
    req,               \* its argument data (send, send_and_receive)
    result,            \* how the last call ended
    devIdx,            \* receive: index of the device in matched_devices
    ru,                \* locals of receive_unicast
    tick,              \* what the last iteration of receive_unicast worked on
    mc,                \* locals of send_multicast
    ev,                \* check_status_response called by itself: input, output
    conn,              \* connect: _devices, the registry, _timeout_s, the outcome
    assembly,          \* _assemble_message_from_uplinks called by itself
    calls              \* calls the caller has made before the one in progress

recvFields == <<expected, off, last_send_time, matched_devices, processed, pending>>

mcFields == <<profile, send_start_time, send_max_duration>>

transportVars == <<recvFields, mcFields>>

envVars == <<now, store, downlinks, deployments>>

callVars == <<pc, api, req, result, devIdx, ru, tick, mc, ev, conn, assembly, calls>>

vars == <<transportVars, envVars, callVars>>

Devices == {"d1", "d2"}

\* The dev_eui a configuration can name and the registry can be asked about.
RegistryDevices == Devices \cup {"d3"}

\* kind: how the call ended; via: how the receive() inside it ended.
NoResult == [kind |-> "running", msg |-> <<>>, via |-> "none"]

\* fetches: what the store returned in each iteration so far, kept when
\* receive_unicast is the method invoked; stalled: the clock has advanced by
\* more than the sleep in some iteration.
NoRu == [dev |-> "d1", start_time |-> 0, cursor |-> 0, no_uplink |-> 0,
         timeout |-> 0, ticks |-> 0, stalled |-> FALSE, fetches |-> <<>>,
         fport |-> 0]

NoTick == [n |-> 0, fetched |-> {}, new |-> <<>>, fed |-> <<>>, out |-> "none"]

NoStats == [total_multicast_downlink_time |-> 0, total_setup_time |-> 0]

\* ends: how the polling of each chunk so far ended; failed: the offset of
\* the chunk whose create_deployment failed, -1 when none did.
NoMc == [calls |-> 0, len |-> 0, offset |-> 0, polls |-> 0, stats |-> NoStats,
         ends |-> <<>>, failed |-> -1]

NoOut == [ret |-> "none", update |-> FALSE]

NoEv == [given |-> FALSE, status |-> StatusRecord(0, <<>>), out |-> NoOut]

\* devices: self._devices; app: what the application service answers for the
\* configured application id; lookup: what the device registry answers for
\* each dev_eui; timeout_s: self._timeout_s; fuota_service: self._fuota_service
\* is set; status: how the last connect ended.
NotConnected(devs, application, answers) ==
    [devices |-> devs, app |-> application, lookup |-> answers, timeout_s |-> 5,
     fuota_service |-> FALSE, status |-> "none"]

\* A transport on which connect has returned with devs matched.
Connected(devs) ==
    IF devs = <<>> THEN NotConnected(<<>>, "found", [d \in RegistryDevices |-> "none"])
    ELSE [devices |-> devs, app |-> "found",
          lookup |-> [d \in RegistryDevices |->
                         IF \E i \in DOMAIN devs : devs[i] = d THEN "found" ELSE "none"],
          timeout_s |-> 5, fuota_service |-> TRUE, status |-> "ok"]

NoOutcome == [kind |-> "none", msg |-> <<>>, rem |-> <<>>]

NoAssembly == [given |-> FALSE, ups |-> <<>>, out |-> NoOutcome]

DefaultProfile == [group_type |-> "CLASS_C", speed |-> "DL_SLOW"]

\* The state after __init__ (the identity and the reassembly state as the
\* constructor leaves them) of a transport given devs as matched devices.
Constructed(devs, prof) ==
    /\ expected = [group_id |-> 0, command_id |-> 0, sequence |-> 0]
    /\ off = 0
    /\ last_send_time = 0
    /\ matched_devices = devs
    /\ processed = {}
    /\ pending = [d \in Devices |-> <<>>]
    /\ profile = prof
    /\ send_start_time = 0
    /\ send_max_duration = [num |-> 3600, den |-> 1]
    /\ now = StartEpoch
    /\ store = [d \in Devices |-> {}]
    /\ downlinks = <<>>
    /\ deployments = <<>>
    /\ pc = "idle"
    /\ api = "none"
    /\ req = <<>>
    /\ result = NoResult
    /\ devIdx = 0
    /\ ru = NoRu
    /\ tick = NoTick
    /\ mc = NoMc

\* self._mtu
mtu == chirpstack_fuota_configurations[profile.group_type][profile.speed].mtu

(***************************************************************************)
(* How a call ends, and what its callers do with the outcome.              *)
(***************************************************************************)
\* The method the caller invoked returns or raises.
Finish(kind, msg, via) ==
    /\ pc' = "idle"
    /\ result' = [kind |-> kind, msg |-> msg, via |-> via]

\* Lines 1026-1037: send_and_receive around receive(); receive itself
\* when it is the method invoked.  exp and o are the identity and _off then.
ReceiveExit(kind, msg, exp, o) ==
    IF api = "send_and_receive" /\ kind = "transport_exc"
    THEN Finish("synth", UploadWriteResponseBytes(exp.sequence, o), kind)
    ELSE Finish(kind, msg, kind)

\* The loop of receive going on to the next device when receive_unicast
\* raises the transport exception.
RuExitSkipsFailedDevice(kind, msg) ==
    /\ devIdx' = devIdx
    /\ IF api = "receive_unicast" THEN Finish(kind, msg, "none")
       ELSE IF kind \in {"none", "transport_exc"} THEN pc' = "receive" /\ result' = result
       ELSE ReceiveExit(kind, msg, expected, off)

\* receive_unicast returns or raises: to its caller when invoked directly,
\* else into the loop of receive (lines 1008-1013).
RuExit(kind, msg) ==
    /\ devIdx' = devIdx
    /\ IF api = "receive_unicast" THEN Finish(kind, msg, "none")
       ELSE IF kind = "none" THEN pc' = "receive" /\ result' = result
       ELSE ReceiveExit(kind, msg, expected, off)

\* The caller invokes receive_unicast(after_epoch, dev_eui, fport, timeout_s).
CallReceiveUnicast(dev, timeout_s, after_epoch) ==
    /\ pc = "idle"
    /\ result = NoResult
    /\ pc' = "ru_start"
    /\ api' = "receive_unicast"
    /\ ru' = [NoRu EXCEPT !.dev = dev, !.timeout = timeout_s, !.cursor = after_epoch,
                          !.fport = RequestFPort]
    /\ UNCHANGED <<transportVars, envVars, req, result, devIdx, tick, mc, ev, conn, assembly, calls>>

\* Lines 684-690: start_time, _validate_device_id, the counter.  The lookup
\* of the device id finds it, finds none (the transport exception), or the
\* request itself fails (the exception of the http client).
RuStart ==
    /\ pc = "ru_start"
    /\ \E lookup \in {"found", "transport_exc", "other_exc"} :
          IF lookup = "found"
          THEN /\ pc' = "ru_loop"
               /\ ru' = [ru EXCEPT !.start_time = now, !.no_uplink = 0, !.ticks = 0]
               /\ UNCHANGED <<result, devIdx>>
          ELSE /\ RuExit(lookup, <<>>)
               /\ UNCHANGED ru
    /\ UNCHANGED <<transportVars, envVars, api, req, tick, mc, ev, conn, assembly, calls>>

\* The timeout check with >= in the place of >.
TimedOutAtDeadline == now - ru.start_time >= ru.timeout

\* Line 694: time.time() - start_time > timeout_s
TimedOut == now - ru.start_time > ru.timeout

\* Lines 694-695 and 750: the timeout check breaks the loop, None is returned.
RuTimeout ==
    /\ pc = "ru_loop"
    /\ TimedOut
    /\ RuExit("none", <<>>)
    /\ UNCHANGED <<transportVars, envVars, api, req, ru, tick, mc, ev, conn, assembly, calls>>

NudgeDue == ru.no_uplink >= NudgeThreshold

\* Lines 698-702 when the nudge is queued (or not due).
NudgeEffects ==
    /\ last_send_time' = IF NudgeDue THEN now - SendTimeSkewS ELSE last_send_time
    /\ downlinks' = IF NudgeDue
                    THEN Append(downlinks, [dev |-> ru.dev, data |-> NudgePayload,
                                            fport |-> NudgeFPort])
                    ELSE downlinks

NoUplinkAfter == IF NudgeDue THEN 0 ELSE ru.no_uplink + 1

\* Lines 698-699, 437-449: queue_downlink fails, send_unicast raises.
RuNudgeFails ==
    /\ pc = "ru_loop"
    /\ ~ TimedOut
    /\ NudgeDue
    /\ last_send_time' = now - SendTimeSkewS
    /\ RuExit("transport_exc", <<>>)
    /\ UNCHANGED <<expected, off, matched_devices, processed, pending, mcFields,
                   now, store, downlinks, deployments, api, req, ru, tick, mc, ev, conn, assembly, calls>>

\* Line 708, 482-487: the message store does not answer 200, or requests.get
\* itself raises.
RuFetchFails ==
    /\ pc = "ru_loop"
    /\ ~ TimedOut
    /\ NudgeEffects
    /\ \E kind \in {"transport_exc", "other_exc"} : RuExit(kind, <<>>)
    /\ ru' = [ru EXCEPT !.no_uplink = NoUplinkAfter]
    /\ UNCHANGED <<expected, off, matched_devices, processed, pending, mcFields,
                   now, store, deployments, api, req, tick, mc, ev, conn, assembly, calls>>

\* asyncio.sleep(5): the clock advances by the sleep, or by more when the
\* task is held up; after MaxTicks iterations only the latter is explored.
SleepAdvance == { TickSleepS } \cup { TickSleepS + ReceiveTimeoutS }

\* Frames per device when receive_unicast is reached through receive.
MaxFramesReceive == 1

FrameBudget == IF api = "receive_unicast" THEN MaxFrames ELSE MaxFramesReceive

\* The frames a fetch may return for the first time: any fCnt not yet used,
\* the devices of one call sharing the numbering and the budget.
FreshFrames(dev) ==
    LET used == { f.fCnt : f \in UNION { store[d] : d \in Devices } }
        free == (1 .. FrameBudget) \ used
        sent == [free -> DevicePayloads(expected) \cup {<<>>}]
    IN  { { Frame(k, g[k]) : k \in { j \in free : g[j] # <<>> } } : g \in sent }

\* The frames a fetch may return again: the store applies after_epoch to its
\* own records, inclusively or strictly, or returns all or none of them.
AgainFrames(dev, after_epoch) ==
    { {}, store[dev],
      { f \in store[dev] : TimestampEpoch(f.time) >= after_epoch },
      { f \in store[dev] : TimestampEpoch(f.time) > after_epoch } }

\* One iteration of the loop, lines 692-748, with a fetch that succeeds.
RuTick ==
    /\ pc = "ru_loop"
    /\ ~ TimedOut
    /\ NudgeEffects
    /\ \E fresh \in FreshFrames(ru.dev), again \in AgainFrames(ru.dev, ru.cursor),
          adv \in SleepAdvance :
          LET dev == ru.dev
              pending_uplinks == pending[dev]
              sorted_uplinks == SortedByFCnt(fresh \cup again)
              filtered_uplinks == FilterUnprocessed(sorted_uplinks, processed)
              latest_timestamp_epoch == LatestTimestampEpoch(filtered_uplinks)
              all_uplinks == pending_uplinks \o filtered_uplinks
              asm == AssembleMessageFromUplinks(all_uplinks, expected)
              ru1 == [ru EXCEPT !.no_uplink = NoUplinkAfter, !.ticks = ru.ticks + 1,
                                !.fetches = IF api = "receive_unicast"
                                            THEN Append(ru.fetches, fresh \cup again)
                                            ELSE ru.fetches]
              slept == [ru1 EXCEPT !.stalled = ru.stalled \/ adv # TickSleepS]
          IN  /\ (adv = TickSleepS) => (ru.ticks + 1 < MaxTicks)
              /\ store' = [store EXCEPT ![dev] = store[dev] \cup fresh]
              /\ tick' = [n |-> ru.ticks + 1, fetched |-> fresh \cup again,
                          new |-> filtered_uplinks, fed |-> all_uplinks,
                          out |-> IF all_uplinks = <<>> THEN "idle" ELSE asm.kind]
              /\ IF all_uplinks = <<>>
                 THEN \* lines 716-719
                      /\ now' = now + adv
                      /\ ru' = slept
                      /\ UNCHANGED <<processed, pending, pc, result, devIdx>>
                 ELSE IF asm.kind = "raise"
                 THEN \* line 724 raises
                      /\ RuExit("transport_exc", <<>>)
                      /\ ru' = ru1
                      /\ UNCHANGED <<processed, pending, now>>
                 ELSE /\ processed' = processed \cup { f.time : f \in Range(filtered_uplinks) }
                      /\ IF asm.kind = "msg"
                         THEN \* lines 735-738
                              /\ pending' = [pending EXCEPT ![dev] = <<>>]
                              /\ RuExit("msg", asm.msg)
                              /\ ru' = [ru1 EXCEPT !.cursor =
                                          IF latest_timestamp_epoch > ru.cursor
                                          THEN latest_timestamp_epoch ELSE ru.cursor]
                              /\ UNCHANGED now
                         ELSE \* lines 741-748
                              /\ pending' = [pending EXCEPT ![dev] =
                                               IF asm.rem # <<>>
                                               THEN pending[dev] \o asm.rem
                                               ELSE <<>>]
                              /\ now' = now + adv
                              /\ ru' = [slept EXCEPT !.cursor =
                                          IF latest_timestamp_epoch > ru.cursor
                                          THEN latest_timestamp_epoch ELSE ru.cursor]
                              /\ UNCHANGED <<pc, result, devIdx>>
    /\ UNCHANGED <<expected, off, matched_devices, mcFields, deployments, api, req, mc, ev, conn, assembly, calls>>

(***************************************************************************)
(* receive, send and send_and_receive.                                     *)
(***************************************************************************)
\* Lines 1008-1016: the next matched device, or "No data received".
ReceiveStep ==
    /\ pc = "receive"
    /\ IF devIdx < Len(matched_devices)
       THEN /\ pc' = "ru_start"
            /\ devIdx' = devIdx + 1
            /\ ru' = [NoRu EXCEPT !.dev = matched_devices[devIdx + 1],
                                  !.timeout = ReceiveTimeoutS,
                                  !.cursor = last_send_time,
                                  !.fport = RequestFPort]
            /\ result' = result
       ELSE /\ ReceiveExit("transport_exc", <<>>, expected, off)
            /\ UNCHANGED <<devIdx, ru>>
    /\ UNCHANGED <<transportVars, envVars, api, req, tick, mc, ev, conn, assembly, calls>>

\* send_and_receive without line 1025: the expected sequence stays as it was.
AfterSendKeepsSequence(exp) ==
    IF api = "send_and_receive"
    THEN /\ expected' = exp
         /\ pc' = "receive"
         /\ result' = result
         /\ devIdx' = 0
    ELSE /\ expected' = exp
         /\ Finish("ok", <<>>, "none")
         /\ devIdx' = devIdx

\* send has returned to its caller: lines 1024-1027 of send_and_receive.
AfterSend(exp) ==
    IF api = "send_and_receive"
    THEN /\ expected' = [exp EXCEPT !.sequence = HeaderLoads(Take(req, HeaderSize)).sequence]
         /\ pc' = "receive"
         /\ result' = result
         /\ devIdx' = 0
    ELSE /\ expected' = exp
         /\ Finish("ok", <<>>, "none")
         /\ devIdx' = devIdx

\* Lines 988-991: the request is an image upload.
IsUpload(header) ==
    header.group_id = IMAGE_MANAGEMENT /\ header.command_id = UPLOAD

\* The loop of send taking the first k matched devices last to first.
UnicastFanOutReversed(k, data) ==
    [i \in 1 .. k |-> [dev |-> matched_devices[k + 1 - i], data |-> data,
                       fport |-> RequestFPort]]

\* The queue_downlink calls of send's loop over the first k matched devices.
UnicastFanOut(k, data) ==
    [i \in 1 .. k |-> [dev |-> matched_devices[i], data |-> data, fport |-> RequestFPort]]

\* send, lines 981-1002.  In the unicast branch k devices are served before
\* a send_unicast raises (k = all of them: none raises).
SendDispatch ==
    /\ pc = "send"
    /\ LET req_header == HeaderLoads(Take(req, HeaderSize))
           exp1 == [expected EXCEPT !.group_id = req_header.group_id,
                                    !.command_id = req_header.command_id]
       IN  IF IsUpload(req_header)
           THEN /\ off' = UploadWriteRequestOff(req)
                /\ expected' = exp1
                /\ pc' = "mc_start"
                /\ mc' = [NoMc EXCEPT !.calls = mc.calls + 1, !.len = Len(req)]
                /\ UNCHANGED <<last_send_time, downlinks, result, devIdx>>
           ELSE \E k \in 0 .. Len(matched_devices) :
                /\ off' = off
                /\ mc' = mc
                /\ downlinks' = downlinks \o UnicastFanOut(k, req)
                /\ last_send_time' = IF matched_devices = <<>> THEN last_send_time
                                     ELSE now - SendTimeSkewS
                /\ IF k = Len(matched_devices)
                   THEN AfterSend(exp1)
                   ELSE expected' = exp1 /\ Finish("transport_exc", <<>>, "none") /\ devIdx' = devIdx
    /\ UNCHANGED <<matched_devices, processed, pending, mcFields, now, store,
                   deployments, api, req, ru, tick, ev, conn, assembly, calls>>

\* The caller invokes send(data).
CallSend(data) ==
    /\ pc = "idle"
    /\ result = NoResult
    /\ pc' = "send"
    /\ api' = "send"
    /\ req' = data
    /\ UNCHANGED <<transportVars, envVars, result, devIdx, ru, tick, mc, ev, conn, assembly, calls>>

\* The caller invokes send_and_receive(data): line 1022, then send.
CallSendAndReceive(data) ==
    /\ pc = "idle"
    /\ result = NoResult
    /\ pc' = "send"
    /\ api' = "send_and_receive"
    /\ req' = data
    /\ last_send_time' = now - SendTimeSkewS
    /\ UNCHANGED <<expected, off, matched_devices, processed, pending, mcFields,
                   envVars, result, devIdx, ru, tick, mc, ev, conn, assembly, calls>>

\* The caller invokes receive().
CallReceive ==
    /\ pc = "idle"
    /\ result = NoResult
    /\ pc' = "receive"
    /\ api' = "receive"
    /\ devIdx' = 0
    /\ UNCHANGED <<transportVars, envVars, req, result, ru, tick, mc, ev, conn, assembly, calls>>

(***************************************************************************)
(* send_multicast.  The payload is known by its length; a deployment's     *)
(* payload data[offset : offset + mtu] is the slice [from, to) of it.      *)
(***************************************************************************)
\* asyncio.sleep(self._timeout_s) of the poll loop, _timeout_s as constructed
PollSleepS == 5
\* Polls of one deployment that run without a stall of the clock.
MaxPolls == 2
\* Chunks of the payloads given to send_multicast.
MaxChunks == 3

Min(a, b) == IF a < b THEN a ELSE b

\* data[offset : offset + self.mtu] with the chunk end off by one.
ChunkSliceShort(len, offset, m) ==
    [from |-> offset, to |-> Min(offset + m - 1, len)]

\* data[offset : offset + self.mtu]
ChunkSlice(len, offset, m) ==
    [from |-> offset, to |-> Min(offset + m, len)]

\* The deadline of a one-chunk payload, whatever the length.
MaxDurationUnscaled(len, m) == [num |-> 500, den |-> 1]

\* max(500.0, 500.0 * (len(data) / self._mtu)), as a fraction
MaxDuration(len, m) ==
    IF 500 * len > 500 * m THEN [num |-> 500 * len, den |-> m]
    ELSE [num |-> 500, den |-> 1]

\* time.time() - self._send_start_time > self._send_max_duration_s
DeadlinePassed(t) ==
    (t - send_start_time) * send_max_duration.den > send_max_duration.num

\* send_multicast returns to its caller.
McReturn ==
    IF api = "send_multicast"
    THEN expected' = expected /\ Finish("ok", <<>>, "none") /\ devIdx' = devIdx
    ELSE AfterSend(expected)

\* send_and_receive answering a failed send_multicast as it answers a
\* failed receive.
McRaiseAcknowledged ==
    /\ IF api = "send_and_receive"
       THEN Finish("synth", UploadWriteResponseBytes(expected.sequence, off), "none")
       ELSE Finish("transport_exc", <<>>, "none")
    /\ UNCHANGED <<expected, devIdx>>

\* send_multicast raises: nothing between it and the caller catches.
McRaise ==
    /\ Finish("transport_exc", <<>>, "none")
    /\ UNCHANGED <<expected, devIdx>>

\* Lines 888-893 and the first test of the for loop.
McStart ==
    /\ pc = "mc_start"
    /\ send_start_time' = now
    /\ send_max_duration' = MaxDuration(mc.len, mtu)
    /\ IF mc.len > 0
       THEN pc' = "mc_create" /\ UNCHANGED <<expected, result, devIdx>>
       ELSE McReturn
    /\ mc' = [mc EXCEPT !.offset = 0, !.polls = 0, !.stats = NoStats, !.ends = <<>>,
                        !.failed = -1]
    /\ UNCHANGED <<off, last_send_time, matched_devices, processed, pending,
                   profile, envVars, api, req, ru, tick, ev, conn, assembly, calls>>

\* create_deployment followed at once by the first poll.
McCreateWithoutQuietPeriod ==
    /\ pc = "mc_create"
    /\ \E created \in BOOLEAN :
          IF created
          THEN /\ deployments' = Append(deployments, ChunkSlice(mc.len, mc.offset, mtu))
               /\ now' = now
               /\ pc' = "mc_poll"
               /\ mc' = [mc EXCEPT !.polls = 0]
               /\ UNCHANGED <<expected, result, devIdx>>
          ELSE /\ McRaise
               /\ mc' = [mc EXCEPT !.failed = mc.offset]
               /\ UNCHANGED <<deployments, now>>
    /\ UNCHANGED <<off, last_send_time, matched_devices, processed, pending,
                   mcFields, store, downlinks, api, req, ru, tick, ev, conn, assembly, calls>>

\* Lines 913-945: create_deployment for the chunk at mc.offset, then the
\* quiet period; or create_deployment fails.
McCreate ==
    /\ pc = "mc_create"
    /\ \E created \in BOOLEAN :
          IF created
          THEN /\ deployments' = Append(deployments, ChunkSlice(mc.len, mc.offset, mtu))
               /\ now' = now + get_multicast_timeout_seconds(profile.group_type, profile.speed)
               /\ pc' = "mc_poll"
               /\ mc' = [mc EXCEPT !.polls = 0]
               /\ UNCHANGED <<expected, result, devIdx>>
          ELSE /\ McRaise
               /\ mc' = [mc EXCEPT !.failed = mc.offset]
               /\ UNCHANGED <<deployments, now>>
    /\ UNCHANGED <<off, last_send_time, matched_devices, processed, pending,
                   mcFields, store, downlinks, api, req, ru, tick, ev, conn, assembly, calls>>

\* The statuses get_deployment_status may return during a poll.
PollStatuses ==
    { StatusRecord(0, <<IncompleteLogs>>),
      StatusRecord(3, <<CompleteLogs>>),
      StatusRecord(3, <<IncompleteLogs>>),
      StatusRecord(3, <<IncompleteLogs, IncompleteLogs, IncompleteLogs, IncompleteLogs>>) }

\* get_deployment_device_logs for one device: the logs, or an exception.
FetchedLogs(logs) == [ok |-> TRUE, logs |-> logs]

FetchFailed == [ok |-> FALSE, logs |-> <<>>]

\* What the orchestrator may answer during a poll: the value of
\* frag_status_completed_at and, per device of the status, its log fetch.
PollAnswers ==
    { [completed_at |-> st.frag_status_completed_at,
       device_logs |-> [i \in DOMAIN st.device_status |->
                          FetchedLogs(st.device_status[i])]] : st \in PollStatuses }
    \cup { [completed_at |-> 3, device_logs |-> <<FetchFailed>>],
           [completed_at |-> 3, device_logs |-> <<FetchedLogs(CompleteLogs), FetchFailed>>] }

\* get_deployment_status, lines 307-333, the status itself fetched: the
\* status with each device's logs, or, at the first log fetch that fails,
\* logs_error set on that device and the transport exception.
get_deployment_status(completed_at, device_logs) ==
    LET failing == { i \in DOMAIN device_logs : ~ device_logs[i].ok }
    IN  IF failing = {}
        THEN [kind |-> "return",
              status |-> StatusRecord(completed_at,
                                      [i \in DOMAIN device_logs |-> device_logs[i].logs]),
              logs_error |-> 0]
        ELSE [kind |-> "raise",
              status |-> StatusRecord(completed_at, <<>>),
              logs_error |-> CHOOSE i \in failing : \A j \in failing : i <= j]

\* The for loop of send_multicast going on after every end of the polling
\* but a failed fetch of the status, which it lets through.
McNextChunkStatusErrorFatal(how, t, stats) ==
    /\ now' = t
    /\ mc' = [mc EXCEPT !.offset = mc.offset + mtu, !.polls = 0, !.stats = stats,
                        !.ends = Append(mc.ends, how)]
    /\ IF how = "status_error" THEN McRaise
       ELSE IF mc.offset + mtu < mc.len
       THEN pc' = "mc_create" /\ UNCHANGED <<expected, result, devIdx>>
       ELSE McReturn

\* The poll loop not left when the evaluator has returned true.
McNextChunkPollsOn(how, t, stats) ==
    /\ now' = t
    /\ mc' = [mc EXCEPT !.offset = mc.offset + mtu, !.polls = 0, !.stats = stats,
                        !.ends = Append(mc.ends, how)]
    /\ IF how = "completed" THEN UNCHANGED <<pc, expected, result, devIdx>>
       ELSE IF mc.offset + mtu < mc.len
       THEN pc' = "mc_create" /\ UNCHANGED <<expected, result, devIdx>>
       ELSE McReturn

\* The for loop of send_multicast goes on after the chunk at mc.offset, whose
\* polling ended as how.
McNextChunk(how, t, stats) ==
    /\ now' = t
    /\ mc' = [mc EXCEPT !.offset = mc.offset + mtu, !.polls = 0, !.stats = stats,
                        !.ends = Append(mc.ends, how)]
    /\ IF mc.offset + mtu < mc.len
       THEN pc' = "mc_create" /\ UNCHANGED <<expected, result, devIdx>>
       ELSE McReturn

\* The clock after asyncio.sleep(self._timeout_s): the sleep, or, when the
\* task is held up, the first instant past the deadline.
PollSleepAdvance ==
    { now + PollSleepS,
      send_start_time + (send_max_duration.num \div send_max_duration.den) + 1 + PollSleepS }

\* One iteration of the poll loop, lines 950-971.
McPoll ==
    /\ pc = "mc_poll"
    /\ \/ \* get_deployment_status raises
          McNextChunk("status_error", now, mc.stats)
       \/ \E answer \in PollAnswers :
             LET got == get_deployment_status(answer.completed_at, answer.device_logs)
                 status_response == got.status
                 r == check_status_response(status_response)
                 stats1 == IF r.update
                           THEN update_downlink_stats(mc.stats, status_response)
                           ELSE mc.stats
             IN  IF got.kind = "raise" THEN McNextChunk("logs_error", now, mc.stats)
                 ELSE IF r.ret = "raise" THEN McNextChunk("failed", now, stats1)
                 ELSE IF r.ret = "true"
                 THEN McNextChunk("completed", now + PollSleepS, stats1)
                 ELSE IF DeadlinePassed(now) THEN McNextChunk("timeout", now, stats1)
                 ELSE \E t \in PollSleepAdvance :
                      /\ t > now
                      /\ (t = now + PollSleepS) => (mc.polls + 1 < MaxPolls)
                      /\ now' = t
                      /\ mc' = [mc EXCEPT !.polls = mc.polls + 1]
                      /\ UNCHANGED <<pc, expected, result, devIdx>>
    /\ UNCHANGED <<off, last_send_time, matched_devices, processed, pending,
                   mcFields, store, downlinks, deployments, api, req, ru, tick, ev, conn, assembly, calls>>

\* The caller invokes send_multicast(data), data of len bytes.
CallSendMulticast(len) ==
    /\ pc = "idle"
    /\ result = NoResult
    /\ pc' = "mc_start"
    /\ api' = "send_multicast"
    /\ mc' = [NoMc EXCEPT !.calls = mc.calls + 1, !.len = len]
    /\ UNCHANGED <<transportVars, envVars, req, result, devIdx, ru, tick, ev, conn, assembly, calls>>

\* The caller invokes check_status_response(status_response, downlink_stats).
Evaluate ==
    /\ ev.given
    /\ ev.out = NoOut
    /\ ev' = [ev EXCEPT !.out = check_status_response(ev.status)]
    /\ UNCHANGED <<transportVars, envVars, pc, api, req, result, devIdx, ru, tick, mc,
                   conn, assembly, calls>>

(***************************************************************************)
(* SpecRecv: receive_unicast called on a constructed transport.            *)
(***************************************************************************)
\* timeout_s of the direct calls: two and three iterations.  A nudge is due
\* only in the iteration after NudgeThreshold others, which neither timeout
\* allows, so the failure of a nudge is not among the steps of this
\* specification; Spec has it.
RecvTimeouts == {7, 10}

InitRecv ==
    /\ Constructed(<<"d1">>, DefaultProfile)
    /\ ev = NoEv
    /\ conn = Connected(matched_devices)
    /\ assembly = NoAssembly
    /\ calls = 0

NextRecv ==
    \/ \E dev \in Devices, t \in RecvTimeouts :
          CallReceiveUnicast(dev, t, StartEpoch - SendTimeSkewS)
    \/ RuStart
    \/ RuTimeout
    \/ RuFetchFails
    \/ RuTick

SpecRecv == InitRecv /\ [][NextRecv]_vars

(***************************************************************************)
(* SpecMc: send_multicast called on a constructed transport, for every     *)
(* profile and payloads of up to MaxChunks chunks.                         *)
(***************************************************************************)
PayloadLens(m) ==
    { k * m + d : k \in 0 .. (MaxChunks - 1), d \in {0, 1, m - 1} } \cup { MaxChunks * m }

InitMc ==
    /\ \E g \in GroupTypes, sp \in DownlinkSpeeds :
          Constructed(<<"d1">>, [group_type |-> g, speed |-> sp])
    /\ ev = NoEv
    /\ conn = Connected(matched_devices)
    /\ assembly = NoAssembly
    /\ calls = 0

NextMc ==
    \/ \E len \in PayloadLens(mtu) : CallSendMulticast(len)
    \/ McStart
    \/ McCreate
    \/ McPoll

SpecMc == InitMc /\ [][NextMc]_vars

(***************************************************************************)
(* SpecEval: check_status_response on bounded status responses.            *)
(***************************************************************************)
\* Log entries of the device whose logs vary freely.
MaxLogs == 3
\* Further devices of a status response.
MaxOtherDevices == 3

EvalEntries ==
    { SetupReq(2), SetupReq(3), StatusAns(2, 0), StatusAns(2, 1),
      StatusAns(3, 0), StatusAns(3, 1), OtherLog }

SeqsUpTo(S, n) == UNION { [1 .. k -> S] : k \in 0 .. n }

\* A single device that was sent 32 fragments and reports 32 or 33 received,
\* with one missing or none.
FragmentReports ==
    { <<SetupReq(32), StatusAns(r, m)>> : r \in {32, 33}, m \in {0, 1} }

EvalStatuses ==
    { StatusRecord(c, <<>>) : c \in {0, 3} }
    \cup { StatusRecord(c, <<logs>>) : c \in {0, 3}, logs \in FragmentReports }
    \cup { StatusRecord(c, <<logs>> \o others) :
             c \in {0, 3}, logs \in SeqsUpTo(EvalEntries, MaxLogs),
             others \in SeqsUpTo({CompleteLogs, IncompleteLogs}, MaxOtherDevices) }

InitEval ==
    /\ Constructed(<<"d1">>, DefaultProfile)
    /\ \E st \in EvalStatuses : ev = [given |-> TRUE, status |-> st, out |-> NoOut]
    /\ conn = Connected(matched_devices)
    /\ assembly = NoAssembly
    /\ calls = 0

NextEval == Evaluate

SpecEval == InitEval /\ [][NextEval]_vars

(***************************************************************************)
(* SpecCalls: receive_unicast called again on the same transport after a   *)
(* call has returned or raised.                                            *)
(***************************************************************************)
\* Calls made on one transport.
MaxCalls == 2

\* The call has returned or raised, and the caller goes on to its next call.
ReturnToCaller ==
    /\ pc = "idle"
    /\ result # NoResult
    /\ calls + 1 < MaxCalls
    /\ calls' = calls + 1
    /\ result' = NoResult
    /\ api' = "none"
    /\ UNCHANGED <<transportVars, envVars, pc, req, devIdx, ru, tick, mc, ev, conn,
                   assembly>>

InitCalls ==
    /\ Constructed(<<"d1">>, DefaultProfile)
    /\ ev = NoEv
    /\ conn = Connected(matched_devices)
    /\ assembly = NoAssembly
    /\ calls = 0

NextCalls ==
    \/ CallReceiveUnicast("d1", 7, StartEpoch - SendTimeSkewS)
    \/ RuStart
    \/ RuTimeout
    \/ RuFetchFails
    \/ RuTick
    \/ ReturnToCaller

SpecCalls == InitCalls /\ [][NextCalls]_vars

(***************************************************************************)
(* SpecConnect: connect and disconnect on a constructed transport, for     *)
(* bounded lists of configured devices and every answer of the application *)
(* service and of the device registry.                                     *)
(***************************************************************************)
\* Configured devices.
MaxConfigured == 3

\* What ApplicationService.get and DeviceService.get can do: return an
\* object, return None, or raise.
ServiceAnswers == {"found", "none", "raises"}

verify_app_id(application) == application = "found"

\* get_matched_devices without the test of the response.
get_matched_devicesUnfiltered(devs, answers) == devs

\* The loop appends the devices whose lookup returned an object; a lookup that
\* raises ends the loop, and the list matched so far is returned.
RECURSIVE get_matched_devices(_, _)
get_matched_devices(devs, answers) ==
    IF devs = <<>> THEN <<>>
    ELSE IF answers[Head(devs)] = "raises" THEN <<>>
    ELSE IF answers[Head(devs)] = "found"
         THEN <<Head(devs)>> \o get_matched_devices(Tail(devs), answers)
         ELSE get_matched_devices(Tail(devs), answers)

Connect(t) ==
    /\ pc = "idle"
    /\ LET verified == verify_app_id(conn.app)
           found    == get_matched_devices(conn.devices, conn.lookup)
       IN  /\ matched_devices' = IF verified THEN found ELSE matched_devices
           /\ conn' = [conn EXCEPT
                  !.timeout_s = t,
                  !.fuota_service = IF verified THEN TRUE ELSE @,
                  !.status = IF verified /\ found # <<>> THEN "ok"
                             ELSE "connection_error"]
    /\ UNCHANGED <<expected, off, last_send_time, processed, pending, mcFields,
                   envVars, pc, api, req, result, devIdx, ru, tick, mc, ev,
                   assembly, calls>>

Disconnect ==
    /\ pc = "idle"
    /\ conn.fuota_service
    /\ conn' = [conn EXCEPT !.fuota_service = FALSE]
    /\ UNCHANGED <<transportVars, envVars, pc, api, req, result, devIdx, ru, tick,
                   mc, ev, assembly, calls>>

InitConnect ==
    /\ Constructed(<<>>, DefaultProfile)
    /\ ev = NoEv
    /\ assembly = NoAssembly
    /\ calls = 0
    /\ \E devs \in SeqsUpTo(RegistryDevices, MaxConfigured),
          application \in ServiceAnswers,
          answers \in [RegistryDevices -> ServiceAnswers] :
            conn = NotConnected(devs, application, answers)

NextConnect ==
    \/ \E t \in {5, 10} : Connect(t)
    \/ Disconnect

SpecConnect == InitConnect /\ [][NextConnect]_vars

(***************************************************************************)
(* SpecAsm: _assemble_message_from_uplinks on bounded lists of frames,     *)
(* frames that are no SMP header among them.                               *)
(***************************************************************************)
\* Frames of the lists given to the assembler.
MaxAsmFrames == 4

\* A frame of header size whose first byte has 4 in its low three bits.
BadOpPayload(exp) == [MatchPayload(exp) EXCEPT ![1] = 12]

\* A frame that declares a body of one byte and carries two.
OverlongPayload(exp) ==
    HeaderBytes(1, 1, exp.group_id, exp.sequence, exp.command_id) \o <<60, 61>>

AsmPayloads(exp) == DevicePayloads(exp) \cup {BadOpPayload(exp), OverlongPayload(exp)}

\* The caller invokes _assemble_message_from_uplinks(sorted_uplinks).
Assemble ==
    /\ assembly.given
    /\ assembly.out = NoOutcome
    /\ assembly' = [assembly EXCEPT
                       !.out = AssembleMessageFromUplinks(assembly.ups, expected)]
    /\ UNCHANGED <<transportVars, envVars, pc, api, req, result, devIdx, ru, tick, mc,
                   ev, conn, calls>>

InitAsm ==
    /\ Constructed(<<"d1">>, DefaultProfile)
    /\ ev = NoEv
    /\ conn = Connected(matched_devices)
    /\ calls = 0
    /\ \E ps \in SeqsUpTo(AsmPayloads(expected), MaxAsmFrames) :
          assembly = [given |-> TRUE,
                      ups |-> [i \in DOMAIN ps |-> Frame(i, ps[i])],
                      out |-> NoOutcome]

NextAsm == Assemble

SpecAsm == InitAsm /\ [][NextAsm]_vars

(***************************************************************************)
(* Spec: send, receive and send_and_receive called on a constructed        *)
(* transport with zero, one or two matched devices.                        *)
(***************************************************************************)
Requests ==
    { UploadWriteRequestBytes(5, 2345, <<77, 78>>),
      UploadWriteRequestBytes(6, 7, <<>>),
      PlainRequestBytes(0, IMAGE_MANAGEMENT, 0, 7),
      PlainRequestBytes(2, 0, UPLOAD, 8),
      PlainRequestBytes(2, 0, 0, 9) }

Init ==
    /\ \E devs \in {<<>>, <<"d1">>, <<"d1", "d2">>} : Constructed(devs, DefaultProfile)
    /\ ev = NoEv
    /\ conn = Connected(matched_devices)
    /\ assembly = NoAssembly
    /\ calls = 0

Next ==
    \/ \E data \in Requests : CallSend(data)
    \/ \E data \in Requests : CallSendAndReceive(data)
    \/ CallReceive
    \/ SendDispatch
    \/ McStart
    \/ McCreate
    \/ McPoll
    \/ ReceiveStep
    \/ RuStart
    \/ RuTimeout
    \/ RuNudgeFails
    \/ RuFetchFails
    \/ RuTick

Spec == Init /\ [][Next]_vars

(***************************************************************************)
(* SpecUpload: send and send_and_receive given an upload request longer    *)
(* than the mtu, which send_multicast cuts in two chunks.                  *)
(***************************************************************************)
\* An upload request of 2056 bytes; the mtu of the default profile is 2048.
LongUploadRequest == UploadWriteRequestBytes(4, 4096, [i \in 1 .. 2040 |-> 0])

InitUpload ==
    /\ Constructed(<<"d1">>, DefaultProfile)
    /\ ev = NoEv
    /\ conn = Connected(matched_devices)
    /\ assembly = NoAssembly
    /\ calls = 0

NextUpload ==
    \/ CallSend(LongUploadRequest)
    \/ CallSendAndReceive(LongUploadRequest)
    \/ SendDispatch
    \/ McStart
    \/ McCreate
    \/ McPoll
    \/ ReceiveStep
    \/ RuStart
    \/ RuTimeout
    \/ RuNudgeFails
    \/ RuFetchFails
    \/ RuTick

SpecUpload == InitUpload /\ [][NextUpload]_vars


(***************************************************************************)
(* Properties of receive_unicast, under SpecRecv.                          *)
(***************************************************************************)
\* A payload that is by itself a complete message: a header and exactly the
\* number of bytes the header declares.
IsCompleteMessage(data) ==
    /\ Len(data) >= HeaderSize
    /\ Len(data) = HeaderLoads(data).length + HeaderSize

MatchesExpected(data) ==
    /\ HeaderLoads(data).group_id = expected.group_id
    /\ HeaderLoads(data).command_id = expected.command_id
    /\ HeaderLoads(data).sequence = expected.sequence

\* The frames of a set, in fCnt order.
InFCntOrder(S) == SortedByFCnt(S)

\* C1: every message receive_unicast returns carries a header whose group,
\* command and sequence are the expected ones, and is exactly as long as
\* that header declares: len(message) = header.length + Header.SIZE.
C1_ReturnedMessageMatchesExpected ==
    result.kind = "msg" =>
        /\ Len(result.msg) >= HeaderSize
        /\ MatchesExpected(result.msg)
        /\ Len(result.msg) = HeaderLoads(result.msg).length + HeaderSize

\* A message assembled from several frames, behind a complete response of
\* another sequence, has been returned.
C1_Witness ==
    /\ api = "receive_unicast"
    /\ result.kind = "msg"
    /\ Len(tick.fed) = 3
    /\ tick.fed[1].data = SeqMismatchHeadPayload(expected)
    /\ Len(result.msg) = 10

\* C6: when the frames of one matching response arrive one per tick, in
\* fCnt order, header frame first, over three or more ticks and with no
\* other frame, receive_unicast returns the concatenation of their payloads,
\* each frame's bytes once.
C6_OneFramePerTickIsAssembled ==
    LET n == Len(ru.fetches)
        arrived == [i \in 1 .. n |-> CHOOSE f \in ru.fetches[i] : TRUE]
    IN  ( /\ api = "receive_unicast"
          /\ n >= 3
          /\ \A i \in 1 .. n : Cardinality(ru.fetches[i]) = 1
          /\ \A i \in 1 .. n - 1 : arrived[i].fCnt < arrived[i + 1].fCnt
          /\ Len(arrived[1].data) >= HeaderSize
          /\ MatchesExpected(arrived[1].data)
          /\ IsCompleteMessage(Concat(arrived)) )
        => /\ result.kind = "msg"
           /\ result.msg = Concat(arrived)

\* C7: a complete message of another identity at the head of the list fed
\* to the assembler is discarded, it is not in pending after the tick; and
\* a complete matching response that arrived behind k such frames has been
\* returned once k + 1 ticks have run.
C7_MismatchedHeadIsDiscarded ==
    /\ ( /\ api = "receive_unicast"
         /\ tick.n > 0
         /\ tick.fed # <<>>
         /\ IsCompleteMessage(tick.fed[1].data)
         /\ ~ MatchesExpected(tick.fed[1].data) )
       => tick.fed[1] \notin Range(pending[ru.dev])
    /\ LET n == Len(ru.fetches)
           first == IF n > 0 THEN InFCntOrder(ru.fetches[1]) ELSE <<>>
           k == Len(first) - 1
       IN  ( /\ api = "receive_unicast"
             /\ k >= 0
             /\ n >= k + 1
             /\ \A i \in 1 .. n : ru.fetches[i] \subseteq ru.fetches[1]
             /\ \A i \in 1 .. k : /\ IsCompleteMessage(first[i].data)
                                  /\ ~ MatchesExpected(first[i].data)
             /\ IsCompleteMessage(first[k + 1].data)
             /\ MatchesExpected(first[k + 1].data) )
           => /\ result.kind = "msg"
              /\ result.msg = first[k + 1].data

\* C8: with a complete frame of another group between the header frame and
\* the continuation frames of the expected response, the list fed to the
\* assembler yields the concatenation of the frames of the response, and
\* the frame of the other group is kept in pending.
C8_UnrelatedFrameIsSkipped ==
    LET fed == tick.fed
        others == [i \in 1 .. Len(fed) - 2 |-> fed[i + 2]]
    IN  ( /\ api = "receive_unicast"
          /\ Len(fed) >= 3
          /\ Len(fed[1].data) >= HeaderSize
          /\ MatchesExpected(fed[1].data)
          /\ IsCompleteMessage(fed[2].data)
          /\ HeaderLoads(fed[2].data).group_id # expected.group_id
          /\ \A i \in 1 .. Len(fed) - 1 : fed[i].fCnt < fed[i + 1].fCnt
          /\ IsCompleteMessage(fed[1].data \o Concat(others)) )
        => /\ result.kind = "msg"
           /\ result.msg = fed[1].data \o Concat(others)
           /\ fed[2] \in Range(pending[ru.dev])

\* C9: within one call, a frame the store returns again in a later tick is
\* not among the new frames of that tick, so a frame is new in at most one
\* tick; and no frame occurs twice in the list fed to the assembler.
C9_NoFrameAssembledTwice ==
    api = "receive_unicast" =>
        /\ \A f \in tick.fetched :
              (\E i \in 1 .. Len(ru.fetches) - 1 : f \in ru.fetches[i])
                 => f \notin Range(tick.new)
        /\ \A i, j \in DOMAIN tick.fed : i # j => tick.fed[i] # tick.fed[j]

CeilDiv(a, b) == (a + b - 1) \div b

\* C10: with the clock advancing by the 5 s sleep of each tick,
\* receive_unicast runs at most ceil(timeout/5)+1 ticks and has then left
\* the loop or is about to; it returns None only when the elapsed time
\* exceeds the timeout; and once the timeout is exceeded it fetches nothing,
\* queues no nudge and assembles nothing.
C10_ReceiveUnicastTerminates ==
    /\ [](api = "receive_unicast" =>
            /\ (~ ru.stalled) => ru.ticks <= CeilDiv(ru.timeout, TickSleepS) + 1
            /\ (pc = "ru_loop" /\ ~ ru.stalled
                  /\ ru.ticks = CeilDiv(ru.timeout, TickSleepS) + 1)
                  => now - ru.start_time > ru.timeout
            /\ result.kind = "none" => now - ru.start_time > ru.timeout)
    /\ [][(pc = "ru_loop" /\ now - ru.start_time > ru.timeout)
            => /\ pc' = "idle"
               /\ result'.kind = "none"
               /\ store' = store
               /\ downlinks' = downlinks
               /\ tick' = tick
               /\ ru' = ru
               /\ processed' = processed
               /\ pending' = pending]_vars

\* Three ticks have run at the pace of the sleep, the third at the timeout
\* itself, and None has been returned.
C10_Witness ==
    /\ api = "receive_unicast"
    /\ result.kind = "none"
    /\ ru.timeout = 10
    /\ ru.ticks = 3
    /\ ~ ru.stalled
    /\ now - ru.start_time = 15

(***************************************************************************)
(* Properties of send and send_and_receive, under Spec.                    *)
(***************************************************************************)
\* The sequences, offsets and data of the upload requests of Requests.
UploadSequences == {5, 6}

UploadOffsets == {7, 2345}

UploadData == {<<>>, <<77, 78>>}

\* C2: when send_and_receive is given an upload write request with offset
\* off and sequence s and receive() ends with the transport exception,
\* send_and_receive does not raise; it returns the encoded upload write
\* response of sequence s and offset off.
C2_UploadTimeoutIsAcknowledged ==
    \A s \in UploadSequences, o \in UploadOffsets, d \in UploadData :
        ( /\ api = "send_and_receive"
          /\ req = UploadWriteRequestBytes(s, o, d)
          /\ result.via = "transport_exc" )
        => /\ result.kind = "synth"
           /\ result.msg = UploadWriteResponseBytes(s, o)
           /\ UploadWriteResponseLoads(result.msg) = [sequence |-> s, off |-> o]

\* Both matched devices have been waited for in vain after the upload of
\* offset 2345, and the response has been made up.
C2_Witness ==
    /\ api = "send_and_receive"
    /\ req = UploadWriteRequestBytes(5, 2345, <<77, 78>>)
    /\ result.via = "transport_exc"
    /\ result.kind = "synth"
    /\ Len(matched_devices) = 2
    /\ devIdx = 2
    /\ deployments # <<>>

\* C3: send hands an upload request (group IMAGE_MANAGEMENT, command
\* UPLOAD) to send_multicast, once and whole, and queues no downlink; any
\* other request starts no deployment and is queued once per matched
\* device, in their order, on fPort 2.
C3_SendDispatchesOnHeader ==
    api = "send" =>
        LET group == req[5] * 256 + req[6]
            command == req[8]
            all == [i \in 1 .. Len(matched_devices) |->
                      [dev |-> matched_devices[i], data |-> req, fport |-> 2]]
        IN  IF group = 1 /\ command = 1
            THEN /\ downlinks = <<>>
                 /\ mc.calls = (IF pc = "send" THEN 0 ELSE 1)
                 /\ pc # "send" => mc.len = Len(req)
            ELSE /\ deployments = <<>>
                 /\ mc.calls = 0
                 /\ Len(downlinks) <= Len(all)
                 /\ \A i \in DOMAIN downlinks : downlinks[i] = all[i]
                 /\ result.kind = "ok" => downlinks = all

\* A request of the upload command in another group has been queued for
\* two devices.
C3_Witness ==
    /\ api = "send"
    /\ result.kind = "ok"
    /\ req = PlainRequestBytes(2, 0, UPLOAD, 8)
    /\ Len(downlinks) = 2
    /\ downlinks[1].dev = "d1"
    /\ downlinks[2].dev = "d2"

(***************************************************************************)
(* Properties of check_status_response, under SpecEval.                    *)
(***************************************************************************)
\* The greatest element of a non-empty set of numbers.
Greatest(S) == CHOOSE x \in S : \A y \in S : y <= x

\* A device is complete: its logs hold both commands, and the last of each
\* give equal counts, or no fewer received than sent and nothing missing.
CompleteByLastEntries(logs) ==
    LET setups == { i \in DOMAIN logs : logs[i].command = "FragSessionSetupReq" }
        answers == { i \in DOMAIN logs : logs[i].command = "FragSessionStatusAns" }
    IN  /\ setups # {}
        /\ answers # {}
        /\ LET nb_frag_sent == logs[Greatest(setups)].nb_frag
               nb_frag_received == logs[Greatest(answers)].nb_frag_received
               missing_frag == logs[Greatest(answers)].missing_frag
           IN  \/ nb_frag_sent = nb_frag_received
               \/ (nb_frag_sent <= nb_frag_received /\ missing_frag = 0)

\* C4: with frag_status_completed_at > 0, check_status_response returns
\* true exactly when at least one device status is complete, the last
\* FragSessionSetupReq and the last FragSessionStatusAns deciding.
C4_TrueIffSomeDeviceComplete ==
    (ev.out # NoOut /\ ev.status.frag_status_completed_at > 0) =>
        ( ev.out.ret = "true"
          <=> \E i \in DOMAIN ev.status.device_status :
                 CompleteByLastEntries(ev.status.device_status[i]) )

\* True has been returned for a device that reports more fragments than
\* were sent and none missing, after an earlier setup request of that count.
C4_Witness ==
    /\ ev.out # NoOut
    /\ ev.out.ret = "true"
    /\ ev.status.frag_status_completed_at > 0
    /\ ev.status.device_status = << <<SetupReq(3), SetupReq(2), StatusAns(3, 0)>> >>

(***************************************************************************)
(* Properties of send_multicast, under SpecMc.                             *)
(***************************************************************************)
\* C5: send_multicast creates the deployments of the chunks
\* payload[i*mtu : (i+1)*mtu] in offset order and no other; when it returns
\* there are ceil(len/mtu) of them, each non-empty and of at most mtu
\* bytes, only the last shorter, together the payload; none for the empty
\* payload.
C5_ChunksPartitionThePayload ==
    api = "send_multicast" =>
        LET n == CeilDiv(mc.len, mtu)
            made == Len(deployments)
        IN  /\ made <= n
            /\ \A i \in 1 .. made :
                  /\ deployments[i].from = (i - 1) * mtu
                  /\ deployments[i].to = (IF i * mtu < mc.len THEN i * mtu ELSE mc.len)
                  /\ deployments[i].to > deployments[i].from
                  /\ deployments[i].to - deployments[i].from <= mtu
                  /\ i < n => deployments[i].to - deployments[i].from = mtu
                  /\ i > 1 => deployments[i].from = deployments[i - 1].to
            /\ result.kind = "ok" =>
                  /\ made = n
                  /\ mc.len = 0 => deployments = <<>>
                  /\ mc.len > 0 => deployments[made].to = mc.len

\* Three deployments have been created for a payload one byte longer than
\* two chunks, and send_multicast has returned.
C5_Witness ==
    /\ api = "send_multicast"
    /\ result.kind = "ok"
    /\ mc.len = 2 * mtu + 1
    /\ Len(deployments) = 3
    /\ deployments[3].to - deployments[3].from = 1

\* C17: with frag_status_completed_at > 0 and no device complete,
\* check_status_response raises exactly when more than three device
\* statuses were evaluated, and returns false for three or fewer; with a
\* complete device it does not raise, however many statuses there are.
C17_FailsBeyondThreeStatuses ==
    (ev.out # NoOut /\ ev.status.frag_status_completed_at > 0) =>
        LET ds == ev.status.device_status
            some == \E i \in DOMAIN ds : CompleteByLastEntries(ds[i])
        IN  /\ (~ some) => (ev.out.ret = "raise" <=> Len(ds) > 3)
            /\ (~ some /\ Len(ds) <= 3) => ev.out.ret = "false"
            /\ some => ev.out.ret # "raise"

\* Four device statuses, none complete, have made check_status_response
\* raise.
C17_Witness ==
    /\ ev.out # NoOut
    /\ ev.out.ret = "raise"
    /\ ev.status.frag_status_completed_at > 0
    /\ Len(ev.status.device_status) = 4
    /\ \A i \in 1 .. 4 : ~ CompleteByLastEntries(ev.status.device_status[i])

\* C18 as stated: a single device with FragSessionSetupReq(nb_frag = 32)
\* then FragSessionStatusAns(nb_frag_received = 32, missing_frag = 1), with
\* frag_status_completed_at > 0, makes check_status_response return false;
\* it returns true only for nb_frag_sent <= nb_frag_received and
\* missing_frag = 0.
C18_PhantomMissingIsIncomplete ==
    \A r \in {32, 33}, m \in {0, 1} :
        ( /\ ev.out # NoOut
          /\ ev.status.frag_status_completed_at > 0
          /\ ev.status.device_status = << <<SetupReq(32), StatusAns(r, m)>> >> )
        => /\ (r = 32 /\ m = 1) => ev.out.ret = "false"
           /\ ev.out.ret = "true" => (32 <= r /\ m = 0)

\* C18: a single device with FragSessionSetupReq(nb_frag = 32) then
\* FragSessionStatusAns(nb_frag_received = 32, missing_frag = 1), with
\* frag_status_completed_at > 0, makes check_status_response return true:
\* equal counts complete the device whatever missing_frag says, and
\* missing_frag = 0 is asked for only when more fragments were received
\* than sent.
C18_EqualCountsCompleteDespiteMissing ==
    \A r \in {32, 33}, m \in {0, 1} :
        ( /\ ev.out # NoOut
          /\ ev.status.frag_status_completed_at > 0
          /\ ev.status.device_status = << <<SetupReq(32), StatusAns(r, m)>> >> )
        => /\ (r = 32) => (ev.out.ret = "true" /\ ev.out.update)
           /\ (r = 33) => (ev.out.ret = "true" <=> m = 0)
           /\ ev.out.ret \in {"true", "false"}

\* True has been returned for 32 fragments sent, 32 received, 1 missing.
C18_Witness ==
    /\ ev.out # NoOut
    /\ ev.out.ret = "true"
    /\ ev.status.frag_status_completed_at > 0
    /\ ev.status.device_status = << <<SetupReq(32), StatusAns(32, 1)>> >>

\* C19: with frag_status_completed_at = 0, check_status_response returns
\* false whatever the device statuses hold; it does not raise and does not
\* update the downlink stats.
C19_NothingBeforeFragStatusCompleted ==
    (ev.out # NoOut /\ ev.status.frag_status_completed_at = 0) =>
        /\ ev.out.ret = "false"
        /\ ~ ev.out.update

\* False has been returned, with frag_status_completed_at = 0, for four
\* device statuses of which the first is complete and the others are not.
C19_Witness ==
    /\ ev.out # NoOut
    /\ ev.out.ret = "false"
    /\ ev.status.frag_status_completed_at = 0
    /\ Len(ev.status.device_status) = 4
    /\ CompleteByLastEntries(ev.status.device_status[1])
    /\ \A i \in 2 .. 4 : ~ CompleteByLastEntries(ev.status.device_status[i])

(***************************************************************************)
(* Properties of receive and send_and_receive, under Spec.                 *)
(***************************************************************************)
\* The call in progress runs the loop of receive.
InReceive == api \in {"receive", "send_and_receive"}

\* receive_unicast is running for a matched device of receive.
InDevice == pc \in {"ru_start", "ru_loop"}

\* What holds of the loop of receive either way: the devices are taken in
\* order, each from _last_send_time on fPort 2 with 360 s; a device that
\* returns None leads to the next one; a message ends the loop at its device.
ReceiveLoopSteps ==
    /\ pc' = "ru_start" =>
          /\ pc = "receive"
          /\ devIdx' = devIdx + 1
          /\ devIdx' <= Len(matched_devices)
          /\ ru'.dev = matched_devices[devIdx']
          /\ ru'.timeout = 360
          /\ ru'.fport = 2
          /\ ru'.cursor = last_send_time
    /\ (InDevice /\ pc' = "receive") => (TimedOut /\ devIdx' = devIdx)
    /\ (pc # "idle" /\ pc' = "idle" /\ result'.via = "msg") =>
          /\ InDevice
          /\ devIdx' = devIdx
          /\ IsCompleteMessage(result'.msg)
    /\ (pc = "receive" /\ pc' = "idle") =>
          /\ devIdx = Len(matched_devices)
          /\ result'.via = "transport_exc"

\* C11 as stated: receive tries the matched devices in order, each with
\* 360 s on fPort 2 from _last_send_time, returns the first message without
\* consulting a further device, and raises the transport exception exactly
\* when every matched device's reassembly returned None.
C11_RaisesOnlyWhenEveryDeviceReturnedNone ==
    [][ InReceive =>
          /\ ReceiveLoopSteps
          /\ (pc # "idle" /\ pc' = "idle" /\ result'.via = "transport_exc") =>
                (pc = "receive" /\ devIdx = Len(matched_devices)) ]_vars

\* C11: receive tries the matched devices in order, each with 360 s on
\* fPort 2 from _last_send_time, and returns the first message without
\* consulting a further device.  It raises the transport exception when
\* every matched device's reassembly returned None, and also when the
\* reassembly of a device raises it; no further device is consulted then
\* either.
C11_RaisesWhenAllNoneOrADeviceRaises ==
    [][ InReceive =>
          /\ ReceiveLoopSteps
          /\ (pc # "idle" /\ pc' = "idle" /\ result'.via = "transport_exc") =>
                \/ pc = "receive" /\ devIdx = Len(matched_devices)
                \/ InDevice /\ devIdx' = devIdx ]_vars

\* receive has raised the transport exception out of the reassembly of the
\* first of two matched devices.
C11_Witness ==
    /\ api = "receive"
    /\ pc = "idle"
    /\ result.kind = "transport_exc"
    /\ Len(matched_devices) = 2
    /\ devIdx = 1

\* C20 as stated: send_and_receive of a request that is not an image upload,
\* with a receive that raises the transport exception, surfaces the failure
\* and returns no upload-write response.
C20_OnlyUploadsAreAcknowledged ==
    ( /\ api = "send_and_receive"
      /\ pc = "idle"
      /\ result.via = "transport_exc"
      /\ ~ IsUpload(HeaderLoads(Take(req, HeaderSize))) )
    => result.kind = "transport_exc"

(***************************************************************************)
(* Properties of send_multicast inside send and send_and_receive, under    *)
(* SpecUpload.                                                             *)
(***************************************************************************)
\* C12: when create_deployment fails for the chunk at offset k,
\* send_multicast raises at once: that chunk is not polled, the deployments
\* are those of the chunks before k and no other, and the transport
\* exception leaves send and send_and_receive, which runs no receive and
\* makes up no response.
C12_CreateFailureIsFatal ==
    mc.failed >= 0 =>
        /\ pc = "idle"
        /\ result.kind = "transport_exc"
        /\ result.via = "none"
        /\ result.msg = <<>>
        /\ devIdx = 0
        /\ mc.polls = 0
        /\ Len(mc.ends) * mtu = mc.failed
        /\ Len(deployments) * mtu = mc.failed
        /\ \A i \in DOMAIN deployments : deployments[i].to <= mc.failed

\* create_deployment has failed for the second chunk of an upload given to
\* send_and_receive.
C12_Witness ==
    /\ api = "send_and_receive"
    /\ req = LongUploadRequest
    /\ mc.failed = 2048
    /\ deployments = << [from |-> 0, to |-> 2048] >>
    /\ result.kind = "transport_exc"

(***************************************************************************)
(* Properties of the poll loop of send_multicast, under SpecMc.            *)
(***************************************************************************)
\* The polling of some chunk has ended as how; i is the chunk's number.
PollingEnded(i, how) == i \in DOMAIN mc.ends /\ mc.ends[i] = how

\* C13 as stated: when a poll returns false with the time since the send
\* began above max_duration, send_multicast raises the transport exception
\* and no deployment is created for a later chunk.
C13_DeploymentTimeoutIsFatal ==
    \A i \in 1 .. MaxChunks :
        PollingEnded(i, "timeout") =>
            /\ pc = "idle"
            /\ result.kind = "transport_exc"
            /\ Len(deployments) = i

\* C14 as stated: when check_status_response raises DeploymentFailed during
\* the polling of a chunk, send_multicast raises and no deployment is
\* created for a later chunk.
C14_DeploymentFailedIsFatal ==
    \A i \in 1 .. MaxChunks :
        PollingEnded(i, "failed") =>
            /\ pc = "idle"
            /\ result.kind = "transport_exc"
            /\ Len(deployments) = i

\* C15: when the fetch of the deployment status fails during the polling of
\* chunk i, send_multicast does not raise for it: create_deployment is
\* called for chunk i+1 if there is one, and after the last chunk
\* send_multicast returns; it raises only when a create_deployment fails.
C15_StatusErrorIsNotFatal ==
    \A i \in 1 .. MaxChunks :
        PollingEnded(i, "status_error") =>
            /\ Len(deployments) >= i
            /\ result.kind = "transport_exc" => mc.failed >= i * mtu
            /\ (i * mtu < mc.len) =>
                  \/ pc = "mc_create" /\ mc.offset = i * mtu /\ Len(deployments) = i
                  \/ mc.failed = i * mtu /\ Len(deployments) = i
                  \/ /\ Len(deployments) > i
                     /\ deployments[i + 1] = [from |-> i * mtu,
                                              to |-> Min((i + 1) * mtu, mc.len)]
            /\ (Len(mc.ends) * mtu >= mc.len) => (pc = "idle" /\ result.kind = "ok")

\* The status fetch failed during the first of two chunks, the second was
\* deployed and completed, and send_multicast has returned.
C15_Witness ==
    /\ api = "send_multicast"
    /\ mc.ends = <<"status_error", "completed">>
    /\ Len(deployments) = 2
    /\ pc = "idle"
    /\ result.kind = "ok"

\* C16 as stated: a failing fetch of one device's logs does not fail the
\* poll: get_deployment_status returns the status, check_status_response is
\* run on it and the polling of the chunk goes on, so that no chunk's
\* polling ends by a log fetch.
C16_LogFetchErrorDoesNotFailThePoll ==
    \A i \in 1 .. MaxChunks : ~ PollingEnded(i, "logs_error")

(***************************************************************************)
(* The expected response identity after send, under Spec.                  *)
(***************************************************************************)
\* C21 as stated: when send(data) has returned, the expected group_id,
\* command_id and sequence are those of the header of data.
C21_SendSetsTheWholeIdentity ==
    (api = "send" /\ pc = "idle" /\ result.kind = "ok") =>
        LET header == HeaderLoads(Take(req, HeaderSize))
        IN  /\ expected.group_id = header.group_id
            /\ expected.command_id = header.command_id
            /\ expected.sequence = header.sequence

(***************************************************************************)
(* Properties of _assemble_message_from_uplinks, under SpecAsm.            *)
(***************************************************************************)
\* A frame that cannot be a header frame: shorter than a header, or with
\* more than 3 in the low three bits of its first byte.
Malformed(data) == Len(data) < 8 \/ data[1] % 8 > 3

RECURSIVE CumLen(_, _, _)
\* The bytes of the frames p .. q of a list.
CumLen(ups, p, q) ==
    IF q < p THEN 0 ELSE Len(ups[q].data) + CumLen(ups, p, q - 1)

\* The frame at which the message begun at frame p reaches or passes total
\* bytes; 0 when the list ends before.
MessageEnd(ups, p, total) ==
    LET reached == { q \in p .. Len(ups) : CumLen(ups, p, q) >= total }
    IN  IF reached = {} THEN 0
        ELSE CHOOSE q \in reached : \A r \in reached : q <= r

\* The bytes the header of a well-formed frame declares for its message.
DeclaredLength(data) == data[3] * 256 + data[4] + 8

\* The header of a well-formed frame has the expected group and command.
GroupAndCommandMatch(data, exp) ==
    /\ data[5] * 256 + data[6] = exp.group_id
    /\ data[8] = exp.command_id

RECURSIVE HeaderFrames(_, _, _)
\* The frames of a list that are taken as header frames, from frame p on:
\* frame p, and the frame that follows a rejected header.  A header after
\* the first is rejected at once for its group or command; a header whose
\* message completes is rejected when it does not match the expected
\* identity.  A complete first frame ends the assembly either way.
HeaderFrames(ups, p, exp) ==
    IF p > Len(ups) THEN {}
    ELSE IF Malformed(ups[p].data) THEN {p}
    ELSE IF p > 1 /\ ~ GroupAndCommandMatch(ups[p].data, exp)
    THEN {p} \cup HeaderFrames(ups, p + 1, exp)
    ELSE LET total == DeclaredLength(ups[p].data)
             q == MessageEnd(ups, p, total)
         IN  IF q = 0 \/ CumLen(ups, p, q) > total \/ q = 1 THEN {p}
             ELSE IF GroupAndCommandMatch(ups[p].data, exp)
                     /\ ups[p].data[7] = exp.sequence
             THEN {p}
             ELSE {p} \cup HeaderFrames(ups, q + 1, exp)

\* C22 as stated: when a frame taken as a header frame (the first of the
\* list, or the one after a rejected header) is shorter than a header or
\* has more than 3 in the low three bits of its first byte, the assembler
\* raises the transport exception.
C22_MalformedHeaderFrameRaises ==
    assembly.out # NoOutcome =>
        \A p \in HeaderFrames(assembly.ups, 1, expected) :
            Malformed(assembly.ups[p].data) => assembly.out.kind = "raise"

\* C23 as stated: when the bytes gathered for the header of the first frame
\* pass the length it declares, in the first frame alone or with a
\* continuation frame, the assembler raises the transport exception.
C23_OvershootRaises ==
    (assembly.out # NoOutcome /\ assembly.ups # <<>>
        /\ ~ Malformed(assembly.ups[1].data)) =>
        LET total == DeclaredLength(assembly.ups[1].data)
            q == MessageEnd(assembly.ups, 1, total)
        IN  (q # 0 /\ CumLen(assembly.ups, 1, q) > total) =>
                assembly.out.kind = "raise"

(***************************************************************************)
(* The nudge of receive_unicast, under Spec.                               *)
(***************************************************************************)
\* This step queues a nudge: one more downlink, on fPort 4.
NudgeQueued ==
    /\ Len(downlinks') = Len(downlinks) + 1
    /\ downlinks'[Len(downlinks')].fport = 4

\* C24 as stated, in what the tick before the nudge shows: a nudge is the
\* 5-byte payload sent on fPort 4 to the device being received from, and it
\* is queued at a tick only when the ticks before it, the last one among
\* them, saw no uplink; four ticks at least have run by then.
C24_NudgeOnlyAfterIdleTicks ==
    [][ (pc = "ru_loop" /\ NudgeQueued) =>
          /\ downlinks'[Len(downlinks')] =
                [dev |-> ru.dev, data |-> <<0, 1, 2, 3, 4>>, fport |-> 4]
          /\ ru.ticks >= 4
          /\ tick.n = ru.ticks
          /\ tick.new = <<>> ]_vars

(***************************************************************************)
(* The fetch cursor of receive_unicast, under SpecRecv.                    *)
(***************************************************************************)
\* A step of receive_unicast keeps or advances current_after_epoch, and an
\* iteration that marks new frames as processed leaves it at or past the
\* timestamp, in whole seconds, of each of them.
CursorStep ==
    pc \in {"ru_start", "ru_loop"} =>
        /\ ru'.cursor >= ru.cursor
        /\ (tick'.n # tick.n /\ tick'.out \in {"msg", "none"}) =>
              \A i \in DOMAIN tick'.new : ru'.cursor >= tick'.new[i].time \div 2

\* C25: within one receive_unicast call current_after_epoch never
\* decreases and never is below the after_epoch the call was given, and
\* after an iteration that marked new frames as processed it is at least
\* the timestamp, in whole seconds, of each of them.
C25_CursorNeverGoesBack ==
    /\ [] (pc \in {"ru_start", "ru_loop"} => ru.cursor >= StartEpoch - 60)
    /\ [][CursorStep]_vars

\* Two frames of different seconds were new in the second iteration, and
\* the cursor stands at the later one.
C25_Witness ==
    /\ api = "receive_unicast"
    /\ pc = "ru_loop"
    /\ tick.n = 2
    /\ Len(tick.new) = 2
    /\ tick.new[1].time \div 2 < tick.new[2].time \div 2
    /\ ru.cursor = tick.new[2].time \div 2

(***************************************************************************)
(* The reassembly state across calls, under SpecCalls.                     *)
(***************************************************************************)
\* C26 as stated: at the entry of every receive_unicast call the set of
\* processed timestamps and the pending list of the device are empty.
C26_ReassemblyStateStartsEmpty ==
    pc = "ru_start" => (processed = {} /\ pending[ru.dev] = <<>>)

(***************************************************************************)
(* connect, under SpecConnect.                                             *)
(***************************************************************************)
\* The configured devices for which the registry returns an object, in the
\* configured order.
Recognized ==
    SelectSeq(conn.devices, LAMBDA d : conn.lookup[d] = "found")

\* sub is list with some of its elements left out, the order kept.
RECURSIVE IsSubList(_, _)
IsSubList(sub, list) ==
    IF sub = <<>> THEN TRUE
    ELSE IF list = <<>> THEN FALSE
    ELSE IF Head(sub) = Head(list) THEN IsSubList(Tail(sub), Tail(list))
    ELSE IsSubList(sub, Tail(list))

\* C27 as stated: connect raises a connection error when the application id
\* cannot be verified or the registry recognizes no configured device, and
\* when it returns normally matched_devices is not empty and is the list of
\* exactly the configured devices the registry recognizes, in their order.
C27_ConnectMatchesExactlyTheRecognized ==
    /\ (conn.status # "none" /\ (conn.app # "found" \/ Recognized = <<>>))
           => conn.status = "connection_error"
    /\ conn.status = "ok"
           => (matched_devices # <<>> /\ matched_devices = Recognized)

\* C28 as stated: every configured device must resolve in the registry, else
\* connect fails; it never returns normally with fewer devices matched than
\* configured.
C28_ConnectFailsUnlessEveryDeviceResolves ==
    conn.status = "ok" => matched_devices = conn.devices

\* C28, amended: connect fails when the application id is not verified or
\* when no device is matched, and only then; when it returns normally
\* matched_devices is a non-empty sub-list of the configured devices, each of
\* them one for which the registry returned an object, and it may be shorter
\* than the configured list.
C28_ConnectNarrowsToResolvedDevices ==
    /\ conn.status = "ok"
           => /\ matched_devices # <<>>
              /\ IsSubList(matched_devices, conn.devices)
              /\ \A i \in DOMAIN matched_devices :
                     conn.lookup[matched_devices[i]] = "found"
              /\ conn.app = "found"
    /\ conn.status = "connection_error"
           => (conn.app # "found" \/ matched_devices = <<>>)

\* connect has returned normally with fewer devices than were configured.
C28_Witness ==
    /\ conn.status = "ok"
    /\ Len(matched_devices) < Len(conn.devices)
    /\ \E i \in DOMAIN conn.devices : conn.lookup[conn.devices[i]] = "none"

(***************************************************************************)
(* The quiet period after create_deployment and the end of the polling of  *)
(* a completed chunk, under SpecMc.                                        *)
(***************************************************************************)
RECURSIVE TwoToThe(_)
TwoToThe(n) == IF n = 0 THEN 1 ELSE 2 * TwoToThe(n - 1)

\* The seconds the claim gives for a profile of the table.
QuietPeriod(prof) ==
    LET cfg == chirpstack_fuota_configurations[prof.group_type][prof.speed]
    IN  (IF prof.group_type = "CLASS_B" THEN 128 ELSE 1) * TwoToThe(cfg.multicast_timeout)
            + cfg.unicast_timeout + 60

\* send_multicast sleeps get_multicast_timeout_seconds between the creation
\* of a deployment and its first poll.
QuietPeriodStep ==
    (pc = "mc_create" /\ pc' = "mc_poll") =>
        /\ now' - now = QuietPeriod(profile)
        /\ (profile = [group_type |-> "CLASS_C", speed |-> "DL_SLOW"]) => now' - now = 361
        /\ (profile = [group_type |-> "CLASS_B", speed |-> "DL_SLOW"]) => now' - now = 4246

\* C29: for every class and speed of the table get_multicast_timeout_seconds
\* is 2^exponent (class C) or 128 * 2^exponent (class B), plus the unicast
\* timeout of the profile, plus 60: 361 for class C slow, 4246 for class B
\* slow.
C29_MulticastTimeoutSeconds == [][QuietPeriodStep]_vars

\* The first poll of a class B slow deployment is due, 4246 s after the send
\* began.
C29_Witness ==
    /\ pc = "mc_poll"
    /\ profile = [group_type |-> "CLASS_B", speed |-> "DL_SLOW"]
    /\ Len(deployments) = 1
    /\ now = send_start_time + 4246

\* The step in which the evaluator returns true for chunk i leaves the poll
\* loop for the creation of the next chunk's deployment or for the return of
\* send_multicast.
CompletedStep ==
    \A i \in 1 .. MaxChunks :
        (Len(mc.ends) = i - 1 /\ PollingEnded(i, "completed")')
            => /\ pc = "mc_poll"
               /\ pc' \in {"mc_create", "idle"}
               /\ pc' = "mc_create" <=> i * mtu < mc.len
               /\ pc' = "idle" => result'.kind = "ok"
               /\ deployments' = deployments

\* C30: once the evaluator has returned true for a chunk no status or log is
\* fetched again for its deployment: a poll is only ever of the last
\* deployment created, the polling of which has not ended, and what follows
\* the true is the creation of the next chunk's deployment or nothing.
C30_NoPollAfterCompletion ==
    /\ [](pc = "mc_poll" => Len(deployments) = Len(mc.ends) + 1)
    /\ [][CompletedStep]_vars

\* The first chunk was completed and the second is being polled.
C30_Witness ==
    /\ PollingEnded(1, "completed")
    /\ pc = "mc_poll"
    /\ Len(deployments) = 2

(***************************************************************************)
(* The order of the orchestrator operations of send_multicast, under       *)
(* SpecMc.                                                                 *)
(***************************************************************************)
\* A deployment is created only when the polling of every deployment created
\* before it has ended, it is the deployment of the next chunk, and what
\* follows its creation is its polling.
CreationStep ==
    (deployments' # deployments) =>
        /\ pc = "mc_create"
        /\ Len(mc.ends) = Len(deployments)
        /\ deployments' =
               Append(deployments, ChunkSlice(mc.len, Len(deployments) * mtu, mtu))
        /\ pc' = "mc_poll"

\* C31: for each chunk the deployment is created, then the quiet period of
\* get_multicast_timeout_seconds is slept, then the status is polled: while
\* a status is fetched one quiet period has elapsed for every deployment
\* created so far, only the last deployment created is being polled, and
\* the deployment of chunk i+1 is created only after the polling of chunk i
\* has ended.
C31_CreateThenQuietThenPoll ==
    /\ [](pc = "mc_poll" =>
             /\ Len(deployments) = Len(mc.ends) + 1
             /\ now - send_start_time >= Len(deployments) * QuietPeriod(profile))
    /\ [][CreationStep]_vars

\* The second chunk's deployment has been polled once, without success.
C31_Witness ==
    /\ pc = "mc_poll"
    /\ Len(deployments) = 2
    /\ Len(mc.ends) = 1
    /\ mc.polls = 1

(***************************************************************************)
(* Termination of send_multicast, under SpecMc.                            *)
(***************************************************************************)
\* The time since the send began exceeds max(500, 500 * len(payload) / mtu).
PastDeadline ==
    /\ now - send_start_time > 500
    /\ (now - send_start_time) * mtu > 500 * mc.len

\* One poll: it ends the polling of the chunk, on true, on an error, or on a
\* false observed after the deadline; or it was a false observed before the
\* deadline, and the clock has advanced by the sleep when the next poll
\* runs.
PollStep ==
    (pc = "mc_poll") =>
        \/ /\ mc.ends' = mc.ends
           /\ pc' = "mc_poll"
           /\ ~ PastDeadline
           /\ mc.polls' = mc.polls + 1
           /\ now' >= now + PollSleepS
        \/ /\ Len(mc.ends') = Len(mc.ends) + 1
           /\ SubSeq(mc.ends', 1, Len(mc.ends)) = mc.ends
           /\ mc.ends'[Len(mc.ends')] \in
                  {"completed", "status_error", "logs_error", "failed", "timeout"}
           /\ mc.ends'[Len(mc.ends')] = "timeout" => PastDeadline
           /\ pc' \in {"mc_create", "idle"}

\* C32: send_multicast terminates: a payload has finitely many chunks, each
\* created once, and the polling of a chunk ends on the first true, on the
\* first error, or on the first false observed after the deadline
\* max(500, 500 * len / mtu) counted from the start of the send, every other
\* poll being followed by a sleep that advances the clock towards it.
C32_SendMulticastTerminates ==
    /\ [](api = "send_multicast" =>
            /\ Len(deployments) <= CeilDiv(mc.len, mtu)
            /\ Len(mc.ends) <= Len(deployments)
            /\ pc = "mc_poll" => now - send_start_time >= mc.polls * PollSleepS
            /\ result.kind = "ok" => Len(mc.ends) = CeilDiv(mc.len, mtu))
    /\ [][PollStep]_vars

\* A send of three chunks has returned; the polling of its chunks ended
\* on a true, on a false after the deadline and on an error.
C32_Witness ==
    /\ pc = "idle"
    /\ result.kind = "ok"
    /\ Len(mc.ends) = 3
    /\ PollingEnded(1, "completed")
    /\ PollingEnded(2, "timeout")
    /\ PollingEnded(3, "status_error")

(***************************************************************************)
(* The pending list and the list fed to the assembler, under SpecRecv.     *)
(***************************************************************************)
\* The frames the store has returned so far in this call.
FetchedInCall == UNION { ru.fetches[i] : i \in DOMAIN ru.fetches }

\* C33 as stated: after a tick that yields no complete message the pending
\* list of the device is exactly the list of remaining frames the assembler
\* returned; no frame occurs twice in it, and it is no longer than the number
\* of distinct frames fetched during the call.
C33_PendingIsTheRemainder ==
    (api = "receive_unicast" /\ pc = "ru_loop" /\ tick.n = ru.ticks /\ tick.out = "none")
        => /\ pending[ru.dev] = AssembleMessageFromUplinks(tick.fed, expected).rem
           /\ \A i, j \in DOMAIN pending[ru.dev] :
                  i # j => pending[ru.dev][i] # pending[ru.dev][j]
           /\ Len(pending[ru.dev]) <= Cardinality(FetchedInCall)


\* C34 as stated: the list fed to the assembler in every tick, the pending
\* frames together with the newly fetched ones, is in ascending fCnt order,
\* in whichever tick each frame arrived.
C34_FedInFCntOrder ==
    api = "receive_unicast" =>
        \A i, j \in DOMAIN tick.fed :
            i < j => tick.fed[i].fCnt <= tick.fed[j].fCnt

(***************************************************************************)
(* What send_and_receive makes of the failures of receive, under Spec.     *)
(***************************************************************************)
\* receive_unicast is left by the failure of the device lookup, of the fetch
\* or of the nudge: from its first lines, or from the loop with no tick run.
ReceiveFailsOutsideAssembly ==
    /\ pc' = "idle"
    /\ \/ pc = "ru_start"
       \/ pc = "ru_loop" /\ tick' = tick

\* Such a failure reaches the caller of send_and_receive as an error, also
\* when the request was an upload.
FailurePropagates ==
    (api = "send_and_receive" /\ IsUpload(HeaderLoads(req)) /\ ReceiveFailsOutsideAssembly)
        => result'.kind \in {"transport_exc", "other_exc"}

\* C35 as stated: send_and_receive turns only a timeout of receive or a
\* malformed response into a synthesized response; a device that the message
\* store cannot resolve, a failed fetch of uplinks and a failed nudge reach
\* the caller as an error.
C35_OnlyTimeoutAndMalformedAreRecovered == [][FailurePropagates]_vars

\* C36 as stated: send_and_receive answers an upload request with a
\* synthesized acknowledgement only when the evaluator returned true for
\* every deployment of the send; never when the polling of a chunk ended by
\* a failed deployment, by the deadline or by a status error and receive
\* failed as well.
C36_AcknowledgedOnlyWhenConfirmed ==
    (api = "send_and_receive" /\ IsUpload(HeaderLoads(req)) /\ pc = "idle" /\ result.kind = "synth")
        => /\ mc.ends # <<>>
           /\ \A i \in DOMAIN mc.ends : mc.ends[i] = "completed"


\* A step of receive: of its loop over the matched devices or of the
\* receive_unicast it runs for one of them.
ReceiveLeavesSendStateAlone ==
    (InReceive /\ (pc = "receive" \/ InDevice))
        => /\ last_send_time' = last_send_time
           /\ expected' = expected

\* C37 as stated: while receive runs, the nudges of receive_unicast
\* included, last_send_time and the expected identity of the response do not
\* change, so every matched device is read from the same after_epoch.
C37_ReceiveKeepsLastSendTime == [][ReceiveLeavesSendStateAlone]_vars


\* The first poll of the first chunk does not end by the deadline.
FirstPollIsNotTheLast ==
    (pc = "mc_poll" /\ mc.ends = <<>> /\ mc.polls = 0)
        => ~ PollingEnded(1, "timeout")'

\* C38 as stated: for every profile and every payload length the quiet
\* period slept before the first poll is smaller than
\* max(500, 500 * len(payload) / mtu), so that a first chunk whose first poll
\* returns false is polled once more before the deployment timeout is
\* declared.
C38_QuietPeriodWithinDeadline ==
    /\ []((api = "send_multicast" /\ pc \in {"mc_create", "mc_poll"}) =>
             /\ QuietPeriod(profile) < 500 \/ QuietPeriod(profile) * mtu < 500 * mc.len
             /\ get_multicast_timeout_seconds(profile.group_type, profile.speed)
                    * send_max_duration.den < send_max_duration.num)
    /\ [][FirstPollIsNotTheLast]_vars


\* A step adds to the processed timestamps or leaves them alone, and the
\* frames a tick admits as new are not frames the device's pending list held
\* when the tick began.
ProcessedStep ==
    /\ processed \subseteq processed'
    /\ (tick' # tick) =>
          \A i \in DOMAIN tick'.new : tick'.new[i] \notin Range(pending[ru.dev])

\* C39: every frame held in pending has its timestamp among the processed
\* timestamps, no timestamp is ever removed from them, and so a frame held in
\* pending is never admitted again as a newly fetched frame.
C39_PendingFramesAreProcessed ==
    /\ [](\A d \in Devices : \A i \in DOMAIN pending[d] : pending[d][i].time \in processed)
    /\ [][ProcessedStep]_vars

\* A tick has been fed a pending frame that the store returned again, and
\* nothing new.
C39_Witness ==
    /\ pc = "ru_loop"
    /\ tick.n = 2
    /\ tick.fetched # {}
    /\ tick.new = <<>>
    /\ tick.fed # <<>>
    /\ \A f \in tick.fetched : f \in Range(tick.fed)

(***************************************************************************)
(* The message the assembler returns, under SpecAsm.                       *)
(***************************************************************************)
\* msg is the payloads of the frames p .. q of ups one after the other, the
\* frame p carrying the expected header.
IsRunOfFrames(msg, ups, p, q) ==
    /\ p <= q
    /\ Len(ups[p].data) >= HeaderSize
    /\ MatchesExpected(ups[p].data)
    /\ msg = Concat(SubSeq(ups, p, q))

\* C40: a message the assembler returns is the concatenation, in the order
\* of the list, of the payloads of consecutive frames of its input, the
\* first of them the frame the matching header was read from: nothing of an
\* earlier frame is in it, and no frame of the run is left out, moved or
\* repeated.
C40_MessageIsARunOfFrames ==
    assembly.out.kind = "msg" =>
        \E p, q \in DOMAIN assembly.ups :
            IsRunOfFrames(assembly.out.msg, assembly.ups, p, q)

\* The message was put together from the third and fourth frames, after the
\* message of the first two had been rejected.
C40_Witness ==
    /\ assembly.out.kind = "msg"
    /\ Len(assembly.ups) = 4
    /\ IsRunOfFrames(assembly.out.msg, assembly.ups, 3, 4)
    /\ ~ MatchesExpected(assembly.ups[1].data)
    /\ Len(assembly.ups[2].data) < HeaderSize

=============================================================================
